---- MODULE Spec2Model ----
(***************************************************************************)
(* Model of the matafOS dashboard core: DataProcessor (hours and           *)
(* requirements normalisation, employee/task aggregation, requirement      *)
(* linking, query accessors) and TeamFilter.                               *)
(*                                                                         *)
(* Representation.  A JavaScript string is the sequence of its UTF-16 code *)
(* units (<<97,108,108>> is 'all'; Hebrew letters are 1488..1514).  A      *)
(* JavaScript value is a record [k, s, n]: k is "str", "num", "null",      *)
(* "undef" or "nan".  Numbers are integers, on which binary64 arithmetic   *)
(* is exact; quotients (percentages, cost) are exact fractions [num, den]. *)
(* A plain object and a Set/Map are sequences in their enumeration order.  *)
(* Fractional hours, whose sums binary64 rounds, are modelled apart (see   *)
(* "binary64 addition").                                                   *)
(***************************************************************************)
EXTENDS Integers, Sequences, FiniteSets, TLC

VARIABLES hoursData, requirementsData, processedHours, processedRequirements,
          employeeSummary, taskMatrix, taskKPIs, teamsData, currentTeam,
          call    \* the last direct call of a method, with its arguments and result

vars == <<hoursData, requirementsData, processedHours, processedRequirements,
          employeeSummary, taskMatrix, taskKPIs, teamsData, currentTeam, call>>

(***************************************************************************)
(* JavaScript values and built-ins                                         *)
(***************************************************************************)
Str(s) == [k |-> "str", s |-> s, n |-> 0]
Num(n) == [k |-> "num", s |-> <<>>, n |-> n]
Null == [k |-> "null", s |-> <<>>, n |-> 0]
Undefined == [k |-> "undef", s |-> <<>>, n |-> 0]
NaN == [k |-> "nan", s |-> <<>>, n |-> 0]

\* ToBoolean: '' , 0, null, undefined and NaN are falsy.
Truthy(v) ==
    CASE v.k = "str" -> v.s # <<>>
      [] v.k = "num" -> v.n # 0
      [] OTHER -> FALSE

\* a || b
Or(a, b) == IF Truthy(a) THEN a ELSE b

\* Decimal digits of a natural number.
RECURSIVE NatToString(_)
NatToString(n) ==
    IF n < 10 THEN <<48 + n>> ELSE NatToString(n \div 10) \o <<48 + (n % 10)>>

\* String(v)
String(v) ==
    CASE v.k = "str" -> v.s
      [] v.k = "num" -> IF v.n < 0 THEN <<45>> \o NatToString(-v.n) ELSE NatToString(v.n)
      [] v.k = "null" -> <<110,117,108,108>>                         \* 'null'
      [] v.k = "undef" -> <<117,110,100,101,102,105,110,101,100>>    \* 'undefined'
      [] OTHER -> <<78,97,78>>                                       \* 'NaN'

\* White space removed by String.prototype.trim and skipped by parseFloat.
IsSpace(c) == c \in {9, 10, 11, 12, 13, 32, 160}
IsDigit(c) == c \in 48..57

RECURSIVE trimStart(_)
trimStart(s) == IF s # <<>> /\ IsSpace(Head(s)) THEN trimStart(Tail(s)) ELSE s

RECURSIVE trimEnd(_)
trimEnd(s) ==
    IF s # <<>> /\ IsSpace(s[Len(s)]) THEN trimEnd(SubSeq(s, 1, Len(s) - 1)) ELSE s

\* String.prototype.trim
trim(s) == trimEnd(trimStart(s))

\* String.prototype.toLowerCase (Hebrew letters have no case).
toLowerCase(s) == [i \in 1..Len(s) |-> IF s[i] \in 65..90 THEN s[i] + 32 ELSE s[i]]

\* String.prototype.includes
includes(s, sub) ==
    \E i \in 0..(Len(s) - Len(sub)) : SubSeq(s, i + 1, i + Len(sub)) = sub

\* Length of the leading run of decimal digits of s.
RECURSIVE DigitRun(_)
DigitRun(s) == IF s # <<>> /\ IsDigit(Head(s)) THEN 1 + DigitRun(Tail(s)) ELSE 0

\* Value of a string of decimal digits.
RECURSIVE DigitsValue(_)
DigitsValue(s) ==
    IF s = <<>> THEN 0 ELSE 10 * DigitsValue(SubSeq(s, 1, Len(s) - 1)) + (s[Len(s)] - 48)

\* parseFloat(v): String(v), leading white space skipped, an optional sign, then
\* the leading run of digits (the cells of the model hold integers); NaN when
\* there is no digit.
parseFloat(v) ==
    LET t == trimStart(String(v))
        neg == t # <<>> /\ Head(t) = 45
        u == IF t # <<>> /\ Head(t) \in {43, 45} THEN Tail(t) ELSE t
        d == DigitRun(u)
    IN IF d = 0 THEN NaN
       ELSE Num((IF neg THEN -1 ELSE 1) * DigitsValue(SubSeq(u, 1, d)))

\* Sequence without its duplicates, first occurrences kept (a JavaScript Set).
SetAdd(set, x) == IF \E i \in 1..Len(set) : set[i] = x THEN set ELSE Append(set, x)

\* Sum of F over the elements of a sequence, in order.
SumSeq(s, F(_)) ==
    LET f[i \in 0..Len(s)] == IF i = 0 THEN 0 ELSE f[i - 1] + F(s[i])
    IN f[Len(s)]

RECURSIVE Gcd(_, _)
Gcd(a, b) == IF b = 0 THEN a ELSE Gcd(b, a % b)

\* The exact quotient a / b (b > 0, a >= 0 or a < 0) in lowest terms.
Frac(a, b) ==
    LET g == Gcd(IF a < 0 THEN -a ELSE a, b)
    IN IF a = 0 THEN [num |-> 0, den |-> 1] ELSE [num |-> a \div g, den |-> b \div g]

(***************************************************************************)
(* config.js                                                               *)
(***************************************************************************)
CONFIG == [
    MONTHLY_RATE |-> 50000,
    WORKING_DAYS_PER_MONTH |-> 20,
    EXPECTED_DAILY_HOURS |-> 8,
    BUDGET_WARNING_THRESHOLD |-> 90,
    BUDGET_OVERRUN_THRESHOLD |-> 100,
    MAX_MATRIX_TASKS |-> 20,
    EXCLUDED_EMPLOYEE_IDS |-> << <<49,53,56,52,50,57>> >>,    \* ['158429']
    HOURS_COLUMNS |-> [
        EMPLOYEE_NAME |-> <<
            <<1513,1501,32,1502,1513,1508,1495,1492,32,43,32,1508,1512,1496,1497>>,    \* '\u05e9\u05dd \u05de\u05e9\u05e4\u05d7\u05d4 + \u05e4\u05e8\u05d8\u05d9'
            <<1513,1501>>,    \* '\u05e9\u05dd'
            <<69,109,112,108,111,121,101,101>>,    \* 'Employee'
            <<1506,1493,1489,1491>>    \* '\u05e2\u05d5\u05d1\u05d3'
        >>,
        EMPLOYEE_ID |-> <<
            <<1502,1505,1508,1512,32,1506,1493,1489,1491>>,    \* '\u05de\u05e1\u05e4\u05e8 \u05e2\u05d5\u05d1\u05d3'
            <<1502,1505,1508,1512,95,1506,1493,1489,1491>>,    \* '\u05de\u05e1\u05e4\u05e8_\u05e2\u05d5\u05d1\u05d3'
            <<69,109,112,108,111,121,101,101,73,100>>    \* 'EmployeeId'
        >>,
        EMPLOYEE_TYPE |-> <<
            <<1505,1493,1490,32,32,1506,1493,1489,1491>>    \* '\u05e1\u05d5\u05d2  \u05e2\u05d5\u05d1\u05d3'
        >>,
        DATE |-> <<
            <<1514,1488,1512,1497,1498,32,1491,1497,1493,1493,1495>>,    \* '\u05ea\u05d0\u05e8\u05d9\u05da \u05d3\u05d9\u05d5\u05d5\u05d7'
            <<1514,1488,1512,1497,1498>>,    \* '\u05ea\u05d0\u05e8\u05d9\u05da'
            <<68,97,116,101>>    \* 'Date'
        >>,
        HOURS |-> <<
            <<1505,1492,34,1499,32,1513,1506,1493,1514,32,1502,1491,1493,1493,1495,1493,1514>>,    \* '\u05e1\u05d4"\u05db \u05e9\u05e2\u05d5\u05ea \u05de\u05d3\u05d5\u05d5\u05d7\u05d5\u05ea'
            <<1513,1506,1493,1514>>,    \* '\u05e9\u05e2\u05d5\u05ea'
            <<72,111,117,114,115>>    \* 'Hours'
        >>,
        TASK |-> <<
            <<1502,1513,1497,1502,1492>>,    \* '\u05de\u05e9\u05d9\u05de\u05d4'
            <<1508,1506,1497,1500,1493,1514>>,    \* '\u05e4\u05e2\u05d9\u05dc\u05d5\u05ea'
            <<84,97,115,107>>    \* 'Task'
        >>,
        SUBTASK |-> <<
            <<1508,1506,1497,1500,1493,1514,32,1502,1513,1504,1492>>,    \* '\u05e4\u05e2\u05d9\u05dc\u05d5\u05ea \u05de\u05e9\u05e0\u05d4'
            <<83,117,98,84,97,115,107>>,    \* 'SubTask'
            <<83,117,98,32,84,97,115,107>>    \* 'Sub Task'
        >>,
        CLASSIFICATION |-> <<
            <<1508,1506,1497,1500,1493,1514,46,1505,1497,1493,1493,1490,32,1495,1513,1489,1493,1504,1488,1497>>,    \* '\u05e4\u05e2\u05d9\u05dc\u05d5\u05ea.\u05e1\u05d9\u05d5\u05d5\u05d2 \u05d7\u05e9\u05d1\u05d5\u05e0\u05d0\u05d9'
            <<1505,1497,1493,1493,1490>>,    \* '\u05e1\u05d9\u05d5\u05d5\u05d2'
            <<67,108,97,115,115,105,102,105,99,97,116,105,111,110>>    \* 'Classification'
        >>
    ],
    REQUIREMENTS_COLUMNS |-> [
        ID |-> <<
            <<1502,1505,1508,1512>>,    \* '\u05de\u05e1\u05e4\u05e8'
            <<1502,1505,1508,1512,32,1491,1512,1497,1513,1492>>,    \* '\u05de\u05e1\u05e4\u05e8 \u05d3\u05e8\u05d9\u05e9\u05d4'
            <<73,68>>,    \* 'ID'
            <<82,101,113,117,105,114,101,109,101,110,116,32,73,68>>    \* 'Requirement ID'
        >>,
        NAME |-> <<
            <<1504,1493,1513,1488>>,    \* '\u05e0\u05d5\u05e9\u05d0'
            <<1513,1501>>,    \* '\u05e9\u05dd'
            <<1513,1501,32,1491,1512,1497,1513,1492>>,    \* '\u05e9\u05dd \u05d3\u05e8\u05d9\u05e9\u05d4'
            <<78,97,109,101>>,    \* 'Name'
            <<83,117,98,106,101,99,116>>    \* 'Subject'
        >>,
        BUDGET |-> <<
            <<1514,1511,1510,1497,1489,32,1513,1504,1514,1497>>,    \* '\u05ea\u05e7\u05e6\u05d9\u05d1 \u05e9\u05e0\u05ea\u05d9'
            <<1514,1511,1510,1497,1489>>,    \* '\u05ea\u05e7\u05e6\u05d9\u05d1'
            <<66,117,100,103,101,116>>,    \* 'Budget'
            <<65,108,108,111,99,97,116,101,100>>    \* 'Allocated'
        >>,
        ACTUAL |-> <<
            <<1489,1497,1510,1493,1506,32,1499,1493,1500,1500,32,1489,1511,1513,1493,1514,32,1512,1499,1513,32,1508,1514,1493,1495,1493,1514>>,    \* '\u05d1\u05d9\u05e6\u05d5\u05e2 \u05db\u05d5\u05dc\u05dc \u05d1\u05e7\u05e9\u05d5\u05ea \u05e8\u05db\u05e9 \u05e4\u05ea\u05d5\u05d7\u05d5\u05ea'
            <<1489,1508,1493,1506,1500>>,    \* '\u05d1\u05e4\u05d5\u05e2\u05dc'
            <<1506,1500,1493,1514,32,1489,1508,1493,1506,1500>>,    \* '\u05e2\u05dc\u05d5\u05ea \u05d1\u05e4\u05d5\u05e2\u05dc'
            <<65,99,116,117,97,108>>,    \* 'Actual'
            <<67,111,115,116>>    \* 'Cost'
        >>,
        REQUESTER |-> <<
            <<1491,1493,1512,1513,32,1492,1491,1512,1497,1513,1492>>,    \* '\u05d3\u05d5\u05e8\u05e9 \u05d4\u05d3\u05e8\u05d9\u05e9\u05d4'
            <<1491,1493,1512,1513>>,    \* '\u05d3\u05d5\u05e8\u05e9'
            <<82,101,113,117,101,115,116,101,114>>    \* 'Requester'
        >>,
        STATUS |-> <<
            <<1505,1496,1496,1493,1505>>,    \* '\u05e1\u05d8\u05d8\u05d5\u05e1'
            <<83,116,97,116,117,115>>    \* 'Status'
        >>
    ],
    WORK_TYPES |-> [
        INVESTMENT |-> <<
            <<1492,1513,1511,1506,1492>>,    \* '\u05d4\u05e9\u05e7\u05e2\u05d4'
            <<1492,1513,1511,1506,1493,1514>>,    \* '\u05d4\u05e9\u05e7\u05e2\u05d5\u05ea'
            <<1508,1497,1514,1493,1495>>,    \* '\u05e4\u05d9\u05ea\u05d5\u05d7'
            <<73,110,118,101,115,116,109,101,110,116>>,    \* 'Investment'
            <<73,110,118,101,115,116,109,101,110,116,115>>,    \* 'Investments'
            <<68,101,118,101,108,111,112,109,101,110,116>>    \* 'Development'
        >>,
        EXPENSE |-> <<
            <<1492,1493,1510,1488,1492>>,    \* '\u05d4\u05d5\u05e6\u05d0\u05d4'
            <<1492,1493,1510,1488,1493,1514>>,    \* '\u05d4\u05d5\u05e6\u05d0\u05d5\u05ea'
            <<1514,1495,1494,1493,1511,1492>>,    \* '\u05ea\u05d7\u05d6\u05d5\u05e7\u05d4'
            <<69,120,112,101,110,115,101>>,    \* 'Expense'
            <<69,120,112,101,110,115,101,115>>,    \* 'Expenses'
            <<77,97,105,110,116,101,110,97,110,99,101>>    \* 'Maintenance'
        >>,
        ABSENCE |-> <<
            <<1492,1497,1506,1491,1512,1493,1514>>,    \* '\u05d4\u05d9\u05e2\u05d3\u05e8\u05d5\u05ea'
            <<1492,1506,1491,1512,1493,1497,1493,1514>>,    \* '\u05d4\u05e2\u05d3\u05e8\u05d5\u05d9\u05d5\u05ea'
            <<1495,1493,1508,1513>>,    \* '\u05d7\u05d5\u05e4\u05e9'
            <<1502,1495,1500,1492>>,    \* '\u05de\u05d7\u05dc\u05d4'
            <<65,98,115,101,110,99,101>>,    \* 'Absence'
            <<65,98,115,101,110,99,101,115>>,    \* 'Absences'
            <<76,101,97,118,101>>,    \* 'Leave'
            <<83,105,99,107>>    \* 'Sick'
        >>
    ]
]

STATUS == [
    SUCCESS |-> <<115,117,99,99,101,115,115>>,    \* 'success'
    WARNING |-> <<119,97,114,110,105,110,103>>,    \* 'warning'
    DANGER |-> <<100,97,110,103,101,114>>       \* 'danger'
]

\* The work-type labels the classifier returns.
WT_INVESTMENT == <<1492,1513,1511,1506,1492>>    \* '\u05d4\u05e9\u05e7\u05e2\u05d4'
WT_EXPENSE == <<1492,1493,1510,1488,1492>>       \* '\u05d4\u05d5\u05e6\u05d0\u05d4'
WT_ABSENCE == <<1492,1497,1506,1491,1512,1493,1514>>     \* '\u05d4\u05d9\u05e2\u05d3\u05e8\u05d5\u05ea'
WT_OTHER == <<1488,1495,1512>>           \* '\u05d0\u05d7\u05e8'

\* The two values normalizeEmployeeType returns.
ET_MATAF == <<1506,1493,1489,1491,32,1502,1514,1507>>           \* '\u05e2\u05d5\u05d1\u05d3 \u05de\u05ea\u05e3'
ET_PROJECT == <<1506,1493,1489,1491,32,1508,1512,1493,1497,1511,1496,1500,1497>>    \* '\u05e2\u05d5\u05d1\u05d3 \u05e4\u05e8\u05d5\u05d9\u05e7\u05d8\u05dc\u05d9'

(***************************************************************************)
(* DataProcessor: column resolver, coercers, classifier                    *)
(* A raw row is the sequence of its [k |-> header, v |-> cell] entries in  *)
(* Object.keys order.                                                      *)
(***************************************************************************)
Min(S) == CHOOSE x \in S : \A y \in S : x <= y

\* Array.prototype.find over the row's keys: index of the first key that
\* satisfies Test, 0 when there is none.
FindKey(row, Test(_)) ==
    LET hits == {i \in 1..Len(row) : Test(row[i].k)}
    IN IF hits = {} THEN 0 ELSE Min(hits)

\* findColumn in a single pass: each candidate is tried exactly, then as a
\* substring, before the next candidate.
findColumnOnePass(row, possibleNames) ==
    LET exactKey(name) == FindKey(row, LAMBDA k : trim(k) = trim(name))
        found(name) ==
            FindKey(row, LAMBDA k : includes(toLowerCase(trim(k)), toLowerCase(trim(name))))
        hits == {j \in 1..Len(possibleNames) :
                    exactKey(possibleNames[j]) # 0 \/ found(possibleNames[j]) # 0}
    IN IF hits = {} THEN Null
       ELSE IF exactKey(possibleNames[Min(hits)]) # 0
       THEN row[exactKey(possibleNames[Min(hits)])].v
       ELSE row[found(possibleNames[Min(hits)])].v

\* findColumn(row, possibleNames)
findColumn(row, possibleNames) ==
    LET exactKey(name) == FindKey(row, LAMBDA k : trim(k) = trim(name))
        found(name) ==
            FindKey(row, LAMBDA k : includes(toLowerCase(trim(k)), toLowerCase(trim(name))))
        exactHits == {j \in 1..Len(possibleNames) : exactKey(possibleNames[j]) # 0}
        \* `if (found)`: the key '' is falsy
        subHits == {j \in 1..Len(possibleNames) :
                       /\ found(possibleNames[j]) # 0
                       /\ row[found(possibleNames[j])].k # <<>>}
    IN IF exactHits # {} THEN row[exactKey(possibleNames[Min(exactHits)])].v
       ELSE IF subHits # {} THEN row[found(possibleNames[Min(subHits)])].v
       ELSE Null

\* str.replace(/[^\d.-]/g, '')
stripNonNumeric(s) == SelectSeq(s, LAMBDA c : IsDigit(c) \/ c = 46 \/ c = 45)

\* parseNumber(value)
parseNumber(value) ==
    IF value.k \in {"null", "undef"} THEN Null
    ELSE IF value.k \in {"num", "nan"} THEN value
    ELSE LET num == parseFloat(Str(stripNonNumeric(trim(String(value)))))
         IN IF num.k = "nan" THEN Null ELSE num

\* Days since 1970-01-01 to the civil date <<day, month, year>>.
civilFromDays(days) ==
    LET z == days + 719468
        era == z \div 146097
        doe == z - era * 146097
        yoe == (doe - doe \div 1460 + doe \div 36524 - doe \div 146096) \div 365
        doy == doe - (365 * yoe + yoe \div 4 - yoe \div 100)
        mp == (5 * doy + 2) \div 153
        d == doy - (153 * mp + 2) \div 5 + 1
        m == IF mp < 10 THEN mp + 3 ELSE mp - 9
        y == yoe + era * 400 + (IF m <= 2 THEN 1 ELSE 0)
    IN <<d, m, y>>

\* Date.prototype.toLocaleDateString('he-IL'): 'D.M.YYYY'
toLocaleDateString(dmy) ==
    NatToString(dmy[1]) \o <<46>> \o NatToString(dmy[2]) \o <<46>> \o NatToString(dmy[3])

\* A date string of the form YYYY-MM-DD, which new Date(...) parses as that day.
IsIsoDate(s) ==
    /\ Len(s) = 10
    /\ s[5] = 45 /\ s[8] = 45
    /\ \A i \in {1, 2, 3, 4, 6, 7, 9, 10} : IsDigit(s[i])
    /\ DigitsValue(SubSeq(s, 6, 7)) \in 1..12
    /\ DigitsValue(SubSeq(s, 9, 10)) \in 1..28

\* formatDate(dateValue).  Excel serial numbers are whole days; the local time
\* zone is at or east of UTC, so the local day is the UTC day.  Date strings are
\* either of the form YYYY-MM-DD or not parseable by new Date(...).
formatDate(dateValue) ==
    IF ~Truthy(dateValue) THEN <<>>
    ELSE IF dateValue.k = "num" THEN toLocaleDateString(civilFromDays(dateValue.n - 25569))
    ELSE IF IsIsoDate(dateValue.s)
         THEN toLocaleDateString(<<DigitsValue(SubSeq(dateValue.s, 9, 10)),
                                   DigitsValue(SubSeq(dateValue.s, 6, 7)),
                                   DigitsValue(SubSeq(dateValue.s, 1, 4))>>)
    ELSE dateValue.s

\* classifyWorkType checking the lists in the order ABSENCE, EXPENSE, INVESTMENT.
classifyWorkTypeAbsenceFirst(typeValue) ==
    IF ~Truthy(typeValue) THEN WT_OTHER
    ELSE LET type == toLowerCase(String(typeValue))
             hit(list) == \E i \in 1..Len(list) : includes(type, toLowerCase(list[i]))
         IN IF hit(CONFIG.WORK_TYPES.ABSENCE) THEN WT_ABSENCE
            ELSE IF hit(CONFIG.WORK_TYPES.EXPENSE) THEN WT_EXPENSE
            ELSE IF hit(CONFIG.WORK_TYPES.INVESTMENT) THEN WT_INVESTMENT
            ELSE WT_OTHER

\* classifyWorkType(typeValue)
classifyWorkType(typeValue) ==
    IF ~Truthy(typeValue) THEN WT_OTHER
    ELSE LET type == toLowerCase(String(typeValue))
             hit(list) == \E i \in 1..Len(list) : includes(type, toLowerCase(list[i]))
         IN IF hit(CONFIG.WORK_TYPES.INVESTMENT) THEN WT_INVESTMENT
            ELSE IF hit(CONFIG.WORK_TYPES.EXPENSE) THEN WT_EXPENSE
            ELSE IF hit(CONFIG.WORK_TYPES.ABSENCE) THEN WT_ABSENCE
            ELSE WT_OTHER

\* extractRequirement with the digits of any length from 4 on.
extractRequirementUnbounded(task) ==
    IF ~Truthy(task) THEN <<>>
    ELSE LET s == String(task)
             d == DigitRun(s)
             rest == trimStart(SubSeq(s, d + 1, Len(s)))
         IN IF d >= 4 /\ rest # <<>> /\ Head(rest) = 45 THEN SubSeq(s, 1, d) ELSE <<>>

\* extractRequirement(task): String(task).match(/^(\d{4,6})\s*-/)
extractRequirement(task) ==
    IF ~Truthy(task) THEN <<>>
    ELSE LET s == String(task)
             d == DigitRun(s)
             rest == trimStart(SubSeq(s, d + 1, Len(s)))
         IN IF d \in 4..6 /\ rest # <<>> /\ Head(rest) = 45 THEN SubSeq(s, 1, d) ELSE <<>>

\* str.replace(/\s+/g, ' ')
RECURSIVE collapseSpaces(_)
collapseSpaces(s) ==
    IF s = <<>> THEN <<>>
    ELSE IF IsSpace(Head(s)) THEN <<32>> \o collapseSpaces(trimStart(s))
    ELSE <<Head(s)>> \o collapseSpaces(Tail(s))

\* normalizeEmployeeType(typeValue)
normalizeEmployeeType(typeValue) ==
    LET val == trim(collapseSpaces(String(Or(typeValue, Str(<<>>)))))
        lower == toLowerCase(val)
    IN IF includes(lower, <<1502,1514,1507>>) \/ includes(lower, <<109,97,116,97,102>>)
       THEN ET_MATAF                                   \* '\u05DE\u05EA\u05E3', 'mataf'
       ELSE IF \/ includes(lower, <<1508,1512,1493,1497,1511,1496>>)
               \/ includes(lower, <<112,114,111,106,101,99,116>>)
       THEN ET_PROJECT                                 \* '\u05E4\u05E8\u05D5\u05D9\u05E7\u05D8', 'project'
       ELSE ET_MATAF

(***************************************************************************)
(* Plain objects.  An object is the sequence of its [key, val] entries in  *)
(* insertion order; Object.keys/values/entries enumerate the array-index   *)
(* keys first, ascending, then the other keys in insertion order.          *)
(***************************************************************************)
\* A canonical array index: '0' or digits without a leading zero, below 2^32 - 1.
IsArrayIndex(key) ==
    /\ key # <<>>
    /\ \A i \in 1..Len(key) : IsDigit(key[i])
    /\ (Len(key) > 1 => key[1] # 48)
    /\ \/ Len(key) < 10
       \/ /\ Len(key) = 10
          /\ \E i \in 1..10 :
                /\ key[i] < <<52,50,57,52,57,54,55,50,57,53>>[i]     \* '4294967295'
                /\ \A j \in 1..(i - 1) : key[j] = <<52,50,57,52,57,54,55,50,57,53>>[j]

\* a < b for two canonical array indices.
IndexLess(a, b) ==
    \/ Len(a) < Len(b)
    \/ /\ Len(a) = Len(b)
       /\ \E i \in 1..Len(a) : a[i] < b[i] /\ \A j \in 1..(i - 1) : a[j] = b[j]

\* Array.prototype.sort with a consistent comparator (the sort is stable):
\* Before(a, b) is "compare(a, b) < 0".
StableSort(s, Before(_, _)) ==
    LET \* the number of elements that the sort places ahead of s[i]: those that
        \* compare before it, and the earlier ones that compare equal to it
        ahead(i) ==
            Cardinality({j \in 1..Len(s) :
                            Before(s[j], s[i]) \/ (j < i /\ ~Before(s[i], s[j]))})
    IN [p \in 1..Len(s) |-> s[CHOOSE i \in 1..Len(s) : ahead(i) = p - 1]]

\* Object.entries(obj)
ObjectEntries(obj) ==
    StableSort(SelectSeq(obj, LAMBDA e : IsArrayIndex(e.key)),
               LAMBDA a, b : IndexLess(a.key, b.key))
    \o SelectSeq(obj, LAMBDA e : ~IsArrayIndex(e.key))

\* Object.values(obj)
ObjectValues(obj) ==
    LET entries == ObjectEntries(obj)
    IN [i \in 1..Len(entries) |-> entries[i].val]

\* obj[key]: index of the entry, 0 when the object has no such own property.
Lookup(obj, key) ==
    LET hits == {i \in 1..Len(obj) : obj[i].key = key}
    IN IF hits = {} THEN 0 ELSE Min(hits)

(***************************************************************************)
(* DataProcessor: record normaliser                                        *)
(***************************************************************************)
\* The callback of hoursData.map in processHours.
processHoursRow(row) ==
    LET employeeId ==
            String(Or(findColumn(row, CONFIG.HOURS_COLUMNS.EMPLOYEE_ID), Str(<<>>)))
        classificationValue ==
            Or(findColumn(row, CONFIG.HOURS_COLUMNS.CLASSIFICATION), Str(<<>>))
        workType == classifyWorkType(classificationValue)
        employeeTypeRaw == Or(findColumn(row, CONFIG.HOURS_COLUMNS.EMPLOYEE_TYPE), Str(<<>>))
        employeeType == normalizeEmployeeType(employeeTypeRaw)
        hours == Or(parseFloat(findColumn(row, CONFIG.HOURS_COLUMNS.HOURS)), Num(0))
    IN [employee |-> Or(findColumn(row, CONFIG.HOURS_COLUMNS.EMPLOYEE_NAME), Str(<<>>)),
        employeeId |-> employeeId,
        employeeType |-> employeeType,
        date |-> formatDate(findColumn(row, CONFIG.HOURS_COLUMNS.DATE)),
        hours |-> hours.n,
        task |-> Or(findColumn(row, CONFIG.HOURS_COLUMNS.TASK), Str(<<>>)),
        subtask |-> Or(findColumn(row, CONFIG.HOURS_COLUMNS.SUBTASK), Str(<<>>)),
        classification |-> classificationValue,
        type |-> workType,
        requirement |-> extractRequirement(findColumn(row, CONFIG.HOURS_COLUMNS.TASK)),
        raw |-> row]

\* CONFIG.EXCLUDED_EMPLOYEE_IDS.includes(id)
isExcluded(id) ==
    \E i \in 1..Len(CONFIG.EXCLUDED_EMPLOYEE_IDS) : CONFIG.EXCLUDED_EMPLOYEE_IDS[i] = id

\* processHours without its filter on CONFIG.EXCLUDED_EMPLOYEE_IDS.
processHoursKeepExcluded(data) ==
    LET mapped == [i \in 1..Len(data) |-> processHoursRow(data[i])]
    IN SelectSeq(mapped, LAMBDA row : Truthy(row.employee) /\ row.hours > 0)

\* processHours whose first filter tests the employee alone.
processHoursKeepNoHours(data) ==
    LET mapped == [i \in 1..Len(data) |-> processHoursRow(data[i])]
        kept == SelectSeq(mapped, LAMBDA row : Truthy(row.employee))
    IN SelectSeq(kept, LAMBDA row : ~isExcluded(row.employeeId))

\* processHours, up to the call of buildEmployeeSummary: the new processedHours.
processHours(data) ==
    LET mapped == [i \in 1..Len(data) |-> processHoursRow(data[i])]
        kept == SelectSeq(mapped, LAMBDA row : Truthy(row.employee) /\ row.hours > 0)
    IN SelectSeq(kept, LAMBDA row : ~isExcluded(row.employeeId))

\* getUtilizationStatus with the thresholds included in the upper bucket.
getUtilizationStatusInclusive(percent) ==
    IF percent.num >= CONFIG.BUDGET_OVERRUN_THRESHOLD * percent.den THEN STATUS.DANGER
    ELSE IF percent.num >= CONFIG.BUDGET_WARNING_THRESHOLD * percent.den THEN STATUS.WARNING
    ELSE STATUS.SUCCESS

\* getUtilizationStatus(percent), percent an exact fraction
getUtilizationStatus(percent) ==
    IF percent.num > CONFIG.BUDGET_OVERRUN_THRESHOLD * percent.den THEN STATUS.DANGER
    ELSE IF percent.num > CONFIG.BUDGET_WARNING_THRESHOLD * percent.den THEN STATUS.WARNING
    ELSE STATUS.SUCCESS

\* The callback of requirementsData.map in processRequirements.
processRequirementsRow(row) ==
    LET budgetRaw == findColumn(row, CONFIG.REQUIREMENTS_COLUMNS.BUDGET)
        actualRaw == findColumn(row, CONFIG.REQUIREMENTS_COLUMNS.ACTUAL)
        budget == Or(parseNumber(budgetRaw), Num(0)).n
        actual == Or(parseNumber(actualRaw), Num(0)).n
        utilization == IF budget > 0 THEN Frac(actual * 100, budget) ELSE Frac(0, 1)
        fileStatus ==
            trim(String(Or(findColumn(row, CONFIG.REQUIREMENTS_COLUMNS.STATUS), Str(<<>>))))
    IN [id |-> String(Or(findColumn(row, CONFIG.REQUIREMENTS_COLUMNS.ID), Str(<<>>))),
        name |-> String(Or(findColumn(row, CONFIG.REQUIREMENTS_COLUMNS.NAME), Str(<<>>))),
        budget |-> budget,
        actual |-> actual,
        utilization |-> utilization,
        status |-> IF fileStatus # <<>> THEN fileStatus ELSE getUtilizationStatus(utilization),
        utilizationStatus |-> getUtilizationStatus(utilization),
        requester |->
            String(Or(findColumn(row, CONFIG.REQUIREMENTS_COLUMNS.REQUESTER), Str(<<>>))),
        raw |-> row]

\* req.actualCost of linkHoursToRequirements, were the hourly rate the monthly
\* rate over the working days alone.
actualCostPerDay(hours) == Frac(hours * CONFIG.MONTHLY_RATE, CONFIG.WORKING_DAYS_PER_MONTH)

\* req.actualCost of linkHoursToRequirements:
\* hours * (MONTHLY_RATE / (WORKING_DAYS_PER_MONTH * EXPECTED_DAILY_HOURS))
actualCost(hours) ==
    Frac(hours * CONFIG.MONTHLY_RATE,
         CONFIG.WORKING_DAYS_PER_MONTH * CONFIG.EXPECTED_DAILY_HOURS)

\* linkHoursToRequirements: the requirements with actualHours and actualCost set
\* from the hours records held at the time of the call.
linkHoursToRequirements(hours, reqs) ==
    LET hoursPerReq(id) ==
            SumSeq(hours, LAMBDA row :
                IF row.requirement # <<>> /\ row.requirement = id THEN row.hours ELSE 0)
    IN [i \in 1..Len(reqs) |->
            [id |-> reqs[i].id,
             name |-> reqs[i].name,
             budget |-> reqs[i].budget,
             actual |-> reqs[i].actual,
             utilization |-> reqs[i].utilization,
             status |-> reqs[i].status,
             utilizationStatus |-> reqs[i].utilizationStatus,
             requester |-> reqs[i].requester,
             raw |-> reqs[i].raw,
             actualHours |-> hoursPerReq(reqs[i].id),
             actualCost |-> actualCost(hoursPerReq(reqs[i].id))]]

\* processRequirements, up to the call of linkHoursToRequirements: the rows
\* mapped and filtered.
normalizeRequirements(data) ==
    LET mapped == [i \in 1..Len(data) |-> processRequirementsRow(data[i])]
    IN SelectSeq(mapped, LAMBDA row : row.id # <<>> \/ row.name # <<>>)

(***************************************************************************)
(* DataProcessor: employee and task aggregators                            *)
(***************************************************************************)
\* The type shown for an employee, from the employeeType of its first record
\* (second loop of buildEmployeeSummary).
summaryType(employeeType) ==
    IF employeeType # <<>> /\ trim(employeeType) # <<>>
    THEN LET t == trim(employeeType)
             \* normalized.replace(/^\u05E2\u05D5\u05D1\u05D3\s+/i, '').trim()
             prefixed == /\ Len(t) > 4
                         /\ SubSeq(t, 1, 4) = <<1506,1493,1489,1491>>
                         /\ IsSpace(t[5])
             normalized == IF prefixed THEN trim(SubSeq(t, 5, Len(t))) ELSE t
         IN IF \/ includes(normalized, <<1502,1514,1507>>)
               \/ includes(normalized, <<77,65,84,65,70>>)                \* 'MATAF'
            THEN <<1502,1514,1507>>
            ELSE IF \/ includes(normalized, <<1508,1512,1493,1497,1511,1496>>)
                    \/ includes(normalized, <<80,82,79,74,69,67,84>>)     \* 'PROJECT'
            THEN <<1508,1512,1493,1497,1511,1496,1500,1497>>
            ELSE normalized
    ELSE <<1500,1488,32,1502,1493,1490,1491,1512>>

\* The summary key, were the records keyed by the employee name alone.
summaryKeyByName(row) == String(row.employee)

\* The summary key of a record: row.employeeId || row.employee, as a property key.
summaryKey(row) == IF row.employeeId # <<>> THEN row.employeeId ELSE String(row.employee)

\* buildEmployeeSummary, up to the call of buildTaskMatrix: the new
\* employeeSummary object.
buildEmployeeSummary(hours) ==
    LET fresh(row) ==
            [name |-> row.employee, id |-> row.employeeId,
             employeeType |-> row.employeeType, type |-> row.employeeType,
             totalHours |-> 0, investmentHours |-> 0, expenseHours |-> 0,
             absenceHours |-> 0, requirements |-> <<>>, days |-> <<>>, tasks |-> <<>>]
        add(emp, row) ==
            [emp EXCEPT
                !.totalHours = @ + row.hours,
                !.investmentHours = IF row.type = WT_INVESTMENT THEN @ + row.hours ELSE @,
                !.expenseHours = IF row.type = WT_EXPENSE THEN @ + row.hours ELSE @,
                !.absenceHours = IF row.type = WT_ABSENCE THEN @ + row.hours ELSE @,
                !.requirements = IF row.requirement # <<>> THEN SetAdd(@, row.requirement) ELSE @,
                !.days = IF row.date # <<>> THEN SetAdd(@, row.date) ELSE @,
                !.tasks = IF Truthy(row.task) THEN SetAdd(@, row.task) ELSE @]
        step(obj, row) ==
            LET key == summaryKey(row)
                at == Lookup(obj, key)
            IN IF at = 0
               THEN Append(obj, [key |-> key, val |-> add(fresh(row), row)])
               ELSE [obj EXCEPT ![at].val = add(@, row)]
        fold[i \in 0..Len(hours)] == IF i = 0 THEN <<>> ELSE step(fold[i - 1], hours[i])
        finish(emp) ==
            [name |-> emp.name, id |-> emp.id, employeeType |-> emp.employeeType,
             type |-> summaryType(emp.employeeType),
             totalHours |-> emp.totalHours,
             investmentHours |-> emp.investmentHours,
             expenseHours |-> emp.expenseHours,
             absenceHours |-> emp.absenceHours,
             requirements |-> emp.requirements, days |-> emp.days, tasks |-> emp.tasks,
             investmentPercent |->
                 IF emp.totalHours > 0 THEN Frac(emp.investmentHours * 100, emp.totalHours)
                 ELSE Frac(0, 1),
             expensePercent |->
                 IF emp.totalHours > 0 THEN Frac(emp.expenseHours * 100, emp.totalHours)
                 ELSE Frac(0, 1),
             requirementCount |-> Len(emp.requirements),
             dayCount |-> Len(emp.days),
             taskCount |-> Len(emp.tasks)]
    IN [i \in 1..Len(fold[Len(hours)]) |->
            [key |-> fold[Len(hours)][i].key, val |-> finish(fold[Len(hours)][i].val)]]

\* The taskData object of buildTaskMatrix.
taskDataOf(hours) ==
    LET fresh(row) ==
            [employees |-> <<>>, totalHours |-> 0,
             type |-> IF row.type # <<>> THEN row.type ELSE WT_OTHER]
        add(t, row) ==
            [employees |-> SetAdd(t.employees, row.employee),
             totalHours |-> t.totalHours + row.hours,
             type |-> IF row.type # <<>> /\ row.type # WT_OTHER THEN row.type ELSE t.type]
        step(obj, row) ==
            LET key == String(row.task)
                at == Lookup(obj, key)
            IN IF ~Truthy(row.task) THEN obj
               ELSE IF at = 0 THEN Append(obj, [key |-> key, val |-> add(fresh(row), row)])
               ELSE [obj EXCEPT ![at].val = add(@, row)]
        fold[i \in 0..Len(hours)] == IF i = 0 THEN <<>> ELSE step(fold[i - 1], hours[i])
    IN fold[Len(hours)]

\* array.slice(0, n)
sliceTo(s, n) == SubSeq(s, 1, IF Len(s) < n THEN Len(s) ELSE n)

\* buildTaskMatrix taking the first MAX_MATRIX_TASKS entries without the sort.
buildTaskMatrixUnsorted(hours) ==
    LET sortedTasks ==
            sliceTo(ObjectEntries(taskDataOf(hours)),
                    IF CONFIG.MAX_MATRIX_TASKS # 0 THEN CONFIG.MAX_MATRIX_TASKS ELSE 20)
    IN [i \in 1..Len(sortedTasks) |->
            [name |-> sortedTasks[i].key,
             employeeCount |-> Len(sortedTasks[i].val.employees),
             totalHours |-> sortedTasks[i].val.totalHours,
             type |-> sortedTasks[i].val.type,
             employees |-> sortedTasks[i].val.employees]]

\* buildTaskMatrix: the new taskMatrix.
buildTaskMatrix(hours) ==
    LET sortedTasks ==
            sliceTo(StableSort(ObjectEntries(taskDataOf(hours)),
                               LAMBDA a, b : Len(b.val.employees) - Len(a.val.employees) < 0),
                    IF CONFIG.MAX_MATRIX_TASKS # 0 THEN CONFIG.MAX_MATRIX_TASKS ELSE 20)
    IN [i \in 1..Len(sortedTasks) |->
            [name |-> sortedTasks[i].key,
             employeeCount |-> Len(sortedTasks[i].val.employees),
             totalHours |-> sortedTasks[i].val.totalHours,
             type |-> sortedTasks[i].val.type,
             employees |-> sortedTasks[i].val.employees]]

\* buildTaskMatrix: the new taskKPIs.
buildTaskKPIs(hours) ==
    LET values == ObjectValues(taskDataOf(hours))
        count(Test(_)) == Len(SelectSeq(values, Test))
    IN [total |-> Len(values),
        overloaded |-> count(LAMBDA t : Len(t.employees) >= 4),
        investment |-> count(LAMBDA t : t.type = WT_INVESTMENT),
        expense |-> count(LAMBDA t : t.type = WT_EXPENSE)]

\* updateData('hours', data): processHours, which calls buildEmployeeSummary,
\* which calls buildTaskMatrix; the four fields they assign.
hoursPipeline(data) ==
    LET hours == processHours(data)
    IN [processedHours |-> hours,
        employeeSummary |-> buildEmployeeSummary(hours),
        taskMatrix |-> buildTaskMatrix(hours),
        taskKPIs |-> buildTaskKPIs(hours)]

(***************************************************************************)
(* TeamFilter.  self is the TeamFilter object [teamsData, currentTeam];    *)
(* teamsData is Null or [teams |-> sequence of [id, employees]] (the name  *)
(* and manager of a team are never read by the filter).                    *)
(***************************************************************************)
ALL == <<97,108,108>>    \* 'all'

\* getDefaultTeamsStructure()
getDefaultTeamsStructure == [teams |-> <<
    [id |-> ALL, employees |-> <<>>],
    [id |-> <<108,111,103,97,115,104,105>>,                      \* 'logashi'
     employees |-> << Str(<<51,57,53,54,48,50>>),                \* '395602'
                      Str(<<50,49,56,54,54,56>>),                \* '218668'
                      Str(<<50,49,56,53,48,51>>) >>],            \* '218503'
    [id |-> <<115,112,105,115,104,118,105,108,105>>,             \* 'spishvili'
     employees |-> << Str(<<50,49,56,52,53,50>>),                \* '218452'
                      Str(<<50,49,54,52,54,49>>),                \* '216461'
                      Str(<<51,57,53,55,48,49>>),                \* '395701'
                      Str(<<50,49,57,49,51,55>>),                \* '219137'
                      Str(<<50,49,57,51,48,50>>),                \* '219302'
                      Str(<<50,49,56,54,53,52>>),                \* '218654'
                      Str(<<50,49,56,54,53,50>>),                \* '218652'
                      Str(<<50,49,57,51,49,49>>) >>],            \* '219311'
    [id |-> <<114,101,116,97,105,108>>,                          \* 'retail'
     employees |-> << Str(<<50,49,57,50,53,51>>),                \* '219253'
                      Str(<<50,49,55,54,50,48>>),                \* '217620'
                      Str(<<50,49,55,54,50,51>>) >>],            \* '217623'
    [id |-> <<104,111,105,122,109,97,110>>,                      \* 'hoizman'
     employees |-> << Str(<<51,57,53,54,55,56>>),                \* '395678'
                      Str(<<50,49,56,56,57,49>>),                \* '218891'
                      Str(<<50,49,57,49,57,51>>),                \* '219193'
                      Str(<<51,57,53,55,52,53>>) >>]             \* '395745'
>>]

\* getTeam(teamId): the team, or Null when there is none (or no teamsData).
getTeam(self, teamId) ==
    IF self.teamsData = Null THEN Null
    ELSE LET teams == self.teamsData.teams
             hits == {i \in 1..Len(teams) : teams[i].id = teamId}
         IN IF hits = {} THEN Null ELSE teams[Min(hits)]

\* getCurrentTeamData()
getCurrentTeamData(self) == getTeam(self, self.currentTeam)

\* isEmployeeInCurrentTeam comparing the string forms as they are, untrimmed.
isEmployeeInCurrentTeamUntrimmed(self, employeeId) ==
    IF self.currentTeam = ALL THEN TRUE
    ELSE LET team == getCurrentTeamData(self)
         IN IF team = Null THEN TRUE
            ELSE \E i \in 1..Len(team.employees) :
                     String(team.employees[i]) = String(employeeId)

\* isEmployeeInCurrentTeam(employeeId), employeeId any JavaScript value
isEmployeeInCurrentTeam(self, employeeId) ==
    IF self.currentTeam = ALL THEN TRUE
    ELSE LET team == getCurrentTeamData(self)
         IN IF team = Null THEN TRUE
            ELSE LET empIdStr == trim(String(employeeId))
                 IN \E i \in 1..Len(team.employees) :
                        trim(String(team.employees[i])) = empIdStr

\* emp.id || emp.employeeId || emp['...'] on an employee summary, and
\* row.employeeId || row['...'] on an hours record: the id, or undefined.
idOrUndefined(id) == IF id # <<>> THEN Str(id) ELSE Undefined

\* filterEmployees(employees)
filterEmployees(self, employees) ==
    IF self.currentTeam = ALL THEN employees
    ELSE SelectSeq(employees, LAMBDA emp : isEmployeeInCurrentTeam(self, idOrUndefined(emp.id)))

\* filterHoursData removing the rows in place while it walks the array: the
\* row that follows a removed row is not examined.
RECURSIVE filterHoursDataInPlace(_, _)
filterHoursDataInPlace(self, rows) ==
    IF self.currentTeam = ALL \/ rows = <<>> THEN rows
    ELSE IF isEmployeeInCurrentTeam(self, idOrUndefined(Head(rows).employeeId))
    THEN <<Head(rows)>> \o filterHoursDataInPlace(self, Tail(rows))
    ELSE IF Len(rows) = 1 THEN <<>>
    ELSE <<rows[2]>> \o filterHoursDataInPlace(self, Tail(Tail(rows)))

\* filterHoursData(hoursData)
filterHoursData(self, rows) ==
    IF self.currentTeam = ALL THEN rows
    ELSE SelectSeq(rows, LAMBDA row :
             isEmployeeInCurrentTeam(self, idOrUndefined(row.employeeId)))

(***************************************************************************)
(* DataProcessor accessors.  self is the DataProcessor object; its         *)
(* teamFilter is the TeamFilter object (setTeamFilter is called once, when *)
(* the application is constructed, before any dataset or team event).      *)
(***************************************************************************)
\* getHours()
getHours(self) == filterHoursData(self.teamFilter, self.processedHours)

\* getRequirements()
getRequirements(self) == self.processedRequirements

\* getTaskMatrix()
getTaskMatrix(self) == IF self.taskMatrix.defined THEN self.taskMatrix.value ELSE <<>>

\* getEmployeesArray()
getEmployeesArray(self) ==
    filterEmployees(self.teamFilter,
        StableSort(ObjectValues(self.employeeSummary),
                   LAMBDA a, b : b.totalHours - a.totalHours < 0))

\* getStats()
getStats(self) ==
    [employees |-> Len(getEmployeesArray(self)),
     totalHours |-> SumSeq(getHours(self), LAMBDA row : row.hours),
     requirements |-> Len(self.processedRequirements),
     overBudget |->
         Len(SelectSeq(self.processedRequirements, LAMBDA req :
                 req.utilization.num > CONFIG.BUDGET_OVERRUN_THRESHOLD * req.utilization.den))]

\* getHoursTotals()
getHoursTotals(self) ==
    [totalHours |-> SumSeq(getHours(self), LAMBDA row : row.hours),
     investmentHours |->
         SumSeq(getHours(self), LAMBDA row : IF row.type = WT_INVESTMENT THEN row.hours ELSE 0),
     expenseHours |->
         SumSeq(getHours(self), LAMBDA row : IF row.type = WT_EXPENSE THEN row.hours ELSE 0)]

\* str.toLowerCase().includes(q) on a field that holds a string
fieldIncludes(field, q) == includes(toLowerCase(field.s), q)

\* searchHours(query) raises a TypeError: a row reached by the filter holds a
\* non-string employee, or a non-matching employee and a non-string task.
searchHoursThrows(self, query) ==
    /\ query # <<>>
    /\ \E i \in 1..Len(self.processedHours) :
          LET row == self.processedHours[i]
          IN \/ row.employee.k # "str"
             \/ /\ ~fieldIncludes(row.employee, toLowerCase(query))
                /\ row.task.k # "str"

\* searchHours(query), when it returns
searchHours(self, query) ==
    IF query = <<>> THEN self.processedHours
    ELSE LET q == toLowerCase(query)
         IN SelectSeq(self.processedHours, LAMBDA row :
                \/ fieldIncludes(row.employee, q)
                \/ fieldIncludes(row.task, q)
                \/ includes(row.requirement, q))

\* searchEmployees(query), when it returns
searchEmployees(self, query) ==
    IF query = <<>> THEN getEmployeesArray(self)
    ELSE LET q == toLowerCase(query)
         IN SelectSeq(getEmployeesArray(self), LAMBDA emp :
                \/ fieldIncludes(emp.name, q)
                \/ (emp.id # <<>> /\ includes(toLowerCase(emp.id), q)))

\* searchEmployees(query) raises a TypeError: the name of an employee reached
\* by the filter is not a string.
searchEmployeesThrows(self, query) ==
    /\ query # <<>>
    /\ \E i \in 1..Len(getEmployeesArray(self)) : getEmployeesArray(self)[i].name.k # "str"

\* searchRequirements(query); id and name of a requirement are strings
searchRequirements(self, query) ==
    IF query = <<>> THEN self.processedRequirements
    ELSE LET q == toLowerCase(query)
         IN SelectSeq(self.processedRequirements, LAMBDA row :
                \/ includes(toLowerCase(row.id), q)
                \/ includes(toLowerCase(row.name), q))

\* getRequirementsFilterCounts comparing the status as it is written.
getRequirementsFilterCountsCaseSensitive(self) ==
    LET count(Test(_)) == Len(SelectSeq(self.processedRequirements, Test))
        withStatus(status) == count(LAMBDA req : req.status = status)
    IN [all |-> Len(self.processedRequirements),
        active |-> withStatus(<<97,99,116,105,118,101>>),
        backlog |-> withStatus(<<98,97,99,107,108,111,103>>),
        done |-> withStatus(<<100,111,110,101>>),
        overbudget |-> count(LAMBDA req :
            req.utilization.num > CONFIG.BUDGET_OVERRUN_THRESHOLD * req.utilization.den)]

\* getRequirementsFilterCounts()
getRequirementsFilterCounts(self) ==
    LET count(Test(_)) == Len(SelectSeq(self.processedRequirements, Test))
        withStatus(status) ==
            count(LAMBDA req : req.status # <<>> /\ toLowerCase(req.status) = status)
    IN [all |-> Len(self.processedRequirements),
        active |-> withStatus(<<97,99,116,105,118,101>>),              \* 'active'
        backlog |-> withStatus(<<98,97,99,107,108,111,103>>),          \* 'backlog'
        done |-> withStatus(<<100,111,110,101>>),                      \* 'done'
        overbudget |-> count(LAMBDA req :
            req.utilization.num > CONFIG.BUDGET_OVERRUN_THRESHOLD * req.utilization.den)]

\* filterRequirements comparing the status as it is written.
filterRequirementsCaseSensitive(self, status) ==
    IF status = ALL THEN self.processedRequirements
    ELSE IF status = <<111,118,101,114,98,117,100,103,101,116>>
    THEN SelectSeq(self.processedRequirements, LAMBDA req :
             req.utilization.num > CONFIG.BUDGET_OVERRUN_THRESHOLD * req.utilization.den)
    ELSE SelectSeq(self.processedRequirements, LAMBDA req :
             req.status # <<>> /\ req.status = status)

\* filterRequirements(status), status a string
filterRequirements(self, status) ==
    IF status = ALL THEN self.processedRequirements
    ELSE IF status = <<111,118,101,114,98,117,100,103,101,116>>               \* 'overbudget'
    THEN SelectSeq(self.processedRequirements, LAMBDA req :
             req.utilization.num > CONFIG.BUDGET_OVERRUN_THRESHOLD * req.utilization.den)
    ELSE SelectSeq(self.processedRequirements, LAMBDA req :
             req.status # <<>> /\ toLowerCase(req.status) = toLowerCase(status))

\* updateData that processes the dataset held so far and stores the new one
\* afterwards.
updateDataOfHeld(self, type, load) ==
    IF type = "hours"
    THEN [self EXCEPT !.hoursData = load.data,
                      !.processedHours = hoursPipeline(self.hoursData).processedHours,
                      !.employeeSummary = hoursPipeline(self.hoursData).employeeSummary,
                      !.taskMatrix = [defined |-> TRUE,
                                      value |-> hoursPipeline(self.hoursData).taskMatrix],
                      !.taskKPIs = [defined |-> TRUE,
                                    value |-> hoursPipeline(self.hoursData).taskKPIs]]
    ELSE IF type = "requirements"
    THEN [self EXCEPT !.requirementsData = load.data,
                      !.processedRequirements =
                          linkHoursToRequirements(self.processedHours,
                              normalizeRequirements(self.requirementsData))]
    ELSE self

\* updateData that keeps the summaries of employees absent from the new hours.
updateDataPatching(self, type, load) ==
    IF type = "hours"
    THEN [self EXCEPT !.hoursData = load.data,
                      !.processedHours = load.derived.processedHours,
                      !.employeeSummary =
                          SelectSeq(self.employeeSummary, LAMBDA e :
                              \A j \in DOMAIN load.derived.employeeSummary :
                                  load.derived.employeeSummary[j].key # e.key)
                              \o load.derived.employeeSummary,
                      !.taskMatrix = [defined |-> TRUE, value |-> load.derived.taskMatrix],
                      !.taskKPIs = [defined |-> TRUE, value |-> load.derived.taskKPIs]]
    ELSE IF type = "requirements"
    THEN [self EXCEPT !.requirementsData = load.data,
                      !.processedRequirements =
                          linkHoursToRequirements(self.processedHours, load.normalized)]
    ELSE self

\* updateData(type, data) on the processor self; load is the dataset with what
\* processHours (derived) or the mapping of processRequirements (normalized)
\* makes of it.
updateData(self, type, load) ==
    IF type = "hours"
    THEN [self EXCEPT !.hoursData = load.data,
                      !.processedHours = load.derived.processedHours,
                      !.employeeSummary = load.derived.employeeSummary,
                      !.taskMatrix = [defined |-> TRUE, value |-> load.derived.taskMatrix],
                      !.taskKPIs = [defined |-> TRUE, value |-> load.derived.taskKPIs]]
    ELSE IF type = "requirements"
    THEN [self EXCEPT !.requirementsData = load.data,
                      !.processedRequirements =
                          linkHoursToRequirements(self.processedHours, load.normalized)]
    ELSE self

\* getEmployeesByType(type) (the later of the two definitions in the class)
getEmployeesByType(self, type) ==
    IF type = ALL THEN getEmployeesArray(self)
    ELSE SelectSeq(getEmployeesArray(self), LAMBDA emp : emp.type = type)

\* getLowInvestmentEmployees(threshold)
getLowInvestmentEmployees(self, threshold) ==
    SelectSeq(getEmployeesArray(self), LAMBDA emp :
        emp.investmentPercent.num < threshold * emp.investmentPercent.den)

\* getTasksGrouped()
getTasksGrouped(self) ==
    LET hours == getHours(self)
        \* record.task || '...'
        taskName(record) ==
            Or(record.task, Str(<<1500,1500,1488,32,1502,1513,1497,1502,1492>>))
        fresh(record) ==
            [name |-> taskName(record), totalHours |-> 0, employees |-> <<>>,
             type |-> IF record.type # <<>> THEN record.type ELSE WT_INVESTMENT]
        addEmployee(employees, record) ==
            LET hits == {j \in 1..Len(employees) : employees[j].id = record.employeeId}
            IN IF hits = {}
               THEN Append(employees, [id |-> record.employeeId, name |-> record.employee,
                                       hours |-> record.hours])
               ELSE [employees EXCEPT ![Min(hits)].hours = @ + record.hours]
        add(task, record) ==
            [task EXCEPT !.totalHours = @ + record.hours,
                         !.employees = addEmployee(@, record)]
        step(map, record) ==
            LET hits == {j \in 1..Len(map) : map[j].name = taskName(record)}
            IN IF hits = {} THEN Append(map, add(fresh(record), record))
               ELSE [map EXCEPT ![Min(hits)] = add(@, record)]
        tasksMap[i \in 0..Len(hours)] ==
            IF i = 0 THEN <<>> ELSE step(tasksMap[i - 1], hours[i])
        tasksArray ==
            [i \in 1..Len(tasksMap[Len(hours)]) |->
                [tasksMap[Len(hours)][i] EXCEPT
                    !.employees = StableSort(@, LAMBDA a, b : b.hours - a.hours < 0)]]
    IN StableSort(tasksArray, LAMBDA a, b : b.totalHours - a.totalHours < 0)

(***************************************************************************)
(* Inputs: the raw rows a loaded file can hold and the team ids a          *)
(* selection can carry.                                                    *)
(***************************************************************************)
MaxHoursRows == 2
MaxReqRows == 1

\* A raw row from its <<header, cell>> pairs; an Undefined cell is a column the
\* row does not have.
Row(pairs) ==
    LET present == SelectSeq(pairs, LAMBDA p : p[2] # Undefined)
    IN [i \in 1..Len(present) |-> [k |-> present[i][1], v |-> present[i][2]]]

\* An hours row under the headers of the time-reporting export.
SnowRow(name, id, type, date, hours, task, classification) ==
    Row(<< <<CONFIG.HOURS_COLUMNS.EMPLOYEE_NAME[1], name>>,
           <<CONFIG.HOURS_COLUMNS.EMPLOYEE_ID[1], id>>,
           <<CONFIG.HOURS_COLUMNS.EMPLOYEE_TYPE[1], type>>,
           <<CONFIG.HOURS_COLUMNS.DATE[1], date>>,
           <<CONFIG.HOURS_COLUMNS.HOURS[1], hours>>,
           <<CONFIG.HOURS_COLUMNS.TASK[1], task>>,
           <<CONFIG.HOURS_COLUMNS.CLASSIFICATION[1], classification>> >>)

\* An hours row under padded, alternative and English headers.
AltRow(name, id, date, hours, task, classification) ==
    Row(<< <<<<32>> \o CONFIG.HOURS_COLUMNS.EMPLOYEE_NAME[2] \o <<32>>, name>>,
           <<CONFIG.HOURS_COLUMNS.EMPLOYEE_ID[2], id>>,
           <<CONFIG.HOURS_COLUMNS.DATE[2], date>>,
           <<CONFIG.HOURS_COLUMNS.HOURS[2] \o <<32>>, hours>>,
           <<CONFIG.HOURS_COLUMNS.TASK[3], task>>,
           <<toLowerCase(CONFIG.HOURS_COLUMNS.CLASSIFICATION[3]), classification>> >>)

Dana == Str(<<1491,1504,1492>>)
Yossi == Str(<<1497,1493,1505,1497>>)
Ron == Str(<<1512,1493,1503>>)
Guest == Str(<<1488,1493,1512,1495>>)
BuildTask == Str(<<49,50,51,52,53,54,32,45,32,66,117,105,108,100>>)    \* '123456 - Build'
SupportTask == Str(<<1514,1502,1497,1499,1492>>)
General == Str(<<1499,1500,1500,1497>>)

\* Dana, team logashi, 5 investment hours on requirement 123456.
RowDanaInvest ==
    SnowRow(Dana, Str(<<51,57,53,54,48,50>>), Str(ET_MATAF), Num(45000), Num(5),
            BuildTask, Str(WT_INVESTMENT))
\* Dana again (numeric id, hours as the text '5'), 5 expense hours on the same task.
RowDanaExpense ==
    AltRow(Dana, Num(395602), Str(<<50,48,50,51,45,48,51,45,49,53>>), Str(<<53>>),
           BuildTask, Str(<<69,120,112,101,110,115,101>>))
\* Yossi, team spishvili, 4 hours of an unclassified task without requirement id.
RowYossiOther ==
    SnowRow(Yossi, Num(218452), Str(ET_PROJECT), Num(45001), Num(4), SupportTask, General)
\* Ron, whose id is excluded, 8 investment hours on requirement 123456.
RowRonExcluded ==
    SnowRow(Ron, Num(158429), Str(ET_MATAF), Num(45000), Num(8), BuildTask,
            Str(WT_INVESTMENT))
\* A guest without employee id, type or task: 2 hours of absence.
RowGuestAbsence ==
    SnowRow(Guest, Undefined, Undefined, Str(<<1488,1514,1502,1493,1500>>), Num(2),
            Str(<<>>), Str(<<1495,1493,1508,1513>>))

CoreHoursRows == {RowDanaInvest, RowDanaExpense, RowYossiOther, RowGuestAbsence}

\* Rows the normaliser is to drop: hours zero, negative, not a number, absent;
\* employee name empty or absent; an excluded id, as a number or as text.
DanaWith(name, id, hours) ==
    SnowRow(name, id, Str(ET_MATAF), Num(45000), hours, BuildTask, Str(WT_INVESTMENT))

EdgeHoursRows ==
    {DanaWith(Dana, Str(<<51,57,53,54,48,50>>), Num(0)),
     DanaWith(Dana, Str(<<51,57,53,54,48,50>>), Num(-2)),
     DanaWith(Dana, Str(<<51,57,53,54,48,50>>), Str(<<97,98,99>>)),      \* 'abc'
     DanaWith(Dana, Str(<<51,57,53,54,48,50>>), Undefined),
     DanaWith(Str(<<>>), Str(<<51,57,53,54,48,50>>), Num(5)),
     DanaWith(Undefined, Undefined, Num(5)),
     RowRonExcluded,
     DanaWith(Ron, Str(<<49,53,56,52,50,57>>), Num(5))}

\* Rows whose cells are numbers where text is usual: Dana's id under the
\* employee name 7; Dana with the task 2024 and the employee type '\u05e7\u05d1\u05dc\u05df'.
RowNumericName == DanaWith(Num(7), Str(<<51,57,53,54,48,50>>), Num(5))
RowNumericTask ==
    SnowRow(Dana, Str(<<51,57,53,54,48,50>>), Str(<<1511,1489,1500,1503>>), Num(45000),
            Num(3), Num(2024), Str(WT_INVESTMENT))

NumericHoursRows == {RowNumericName, RowNumericTask}

\* An employee without id whose name is the text of Dana's id: 2 hours.
RowNameIsId ==
    SnowRow(Str(<<51,57,53,54,48,50>>), Undefined, Str(ET_MATAF), Num(45000), Num(2),
            BuildTask, Str(WT_INVESTMENT))

\* Dana a day later: 3 hours of the unclassified task.
RowDanaLater ==
    SnowRow(Dana, Str(<<51,57,53,54,48,50>>), Str(ET_MATAF), Num(45001), Num(3),
            SupportTask, General)
\* Another employee called Dana, with an id of their own: 4 investment hours.
RowDanaNamesake ==
    SnowRow(Dana, Str(<<50,49,56,54,54,56>>), Str(ET_MATAF), Num(45000), Num(4),
            BuildTask, Str(WT_INVESTMENT))

\* All sequences over S of length at most n.
BoundedSeqs(S, n) == UNION {[1..k -> S] : k \in 0..n}

\* The hours datasets: up to MaxHoursRows core rows, or one row of
\* EdgeHoursRows or NumericHoursRows alone or after a core row.
HoursInputs ==
    BoundedSeqs(CoreHoursRows, MaxHoursRows)
        \cup {<<r>> : r \in EdgeHoursRows \cup NumericHoursRows}
        \cup {<<RowDanaInvest, r>> : r \in EdgeHoursRows \cup NumericHoursRows}

\* Each hours dataset with what updateData('hours', data) derives from it,
\* evaluated once.
HoursLoads == {[data |-> data, derived |-> hoursPipeline(data)] : data \in HoursInputs}

\* A requirements row under the headers of the budget export.
AtlasRow(id, name, budget, actual, status) ==
    Row(<< <<CONFIG.REQUIREMENTS_COLUMNS.ID[1], id>>,
           <<CONFIG.REQUIREMENTS_COLUMNS.NAME[1], name>>,
           <<CONFIG.REQUIREMENTS_COLUMNS.BUDGET[1], budget>>,
           <<CONFIG.REQUIREMENTS_COLUMNS.ACTUAL[1], actual>>,
           <<CONFIG.REQUIREMENTS_COLUMNS.STATUS[1], status>> >>)

\* Requirement 123456, budget '10,000', actual 4000, no status in the file.
ReqBuild ==
    AtlasRow(Num(123456), Str(<<66,117,105,108,100>>), Str(<<49,48,44,48,48,48>>),
             Num(4000), Undefined)
\* Requirement '9999' without budget, status 'Active'; no hours refer to it.
ReqOps ==
    AtlasRow(Str(<<57,57,57,57>>), Str(<<79,112,115>>), Num(0), Num(250),
             Str(<<65,99,116,105,118,101>>))
\* A row with neither id nor name.
ReqBlank == AtlasRow(Undefined, Undefined, Num(100), Num(120), Undefined)

ReqRows == {ReqBuild, ReqOps}

\* The requirements datasets: up to MaxReqRows rows, or the blank row alone or
\* after a kept row.
ReqInputs == BoundedSeqs(ReqRows, MaxReqRows) \cup {<<ReqBlank>>, <<ReqBuild, ReqBlank>>}

\* Each requirements dataset with its rows mapped and filtered, evaluated once.
ReqLoads == {[data |-> data, normalized |-> normalizeRequirements(data)] : data \in ReqInputs}

\* Team ids a selection or the saved selection can carry: 'all', two teams of
\* the structure, and an id the structure does not hold.
TeamIdInputs ==
    {ALL,
     <<108,111,103,97,115,104,105>>,              \* 'logashi'
     <<115,112,105,115,104,118,105,108,105>>,     \* 'spishvili'
     <<113,97>>}                                  \* 'qa'

\* The selections drawn together with dataset loads.
MainTeamIds == {ALL, <<108,111,103,97,115,104,105>>}

\* A fetched teams-structure.json whose member ids are numbers or padded text.
FetchedTeamsStructure == [teams |-> <<
    [id |-> ALL, employees |-> <<>>],
    [id |-> <<108,111,103,97,115,104,105>>,
     employees |-> << Num(395602), Str(<<32,50,49,56,54,54,56,32>>) >>]      \* ' 218668 '
>>]

TeamsInputs == {getDefaultTeamsStructure, FetchedTeamsStructure}

(***************************************************************************)
(* The state machine                                                       *)
(***************************************************************************)
\* The TeamFilter and DataProcessor objects of the current state.
TF == [teamsData |-> teamsData, currentTeam |-> currentTeam]

DP == [processedHours |-> processedHours,
       processedRequirements |-> processedRequirements,
       employeeSummary |-> employeeSummary,
       taskMatrix |-> taskMatrix,
       taskKPIs |-> taskKPIs,
       teamFilter |-> TF]

\* The DataProcessor object after a step.
DPAfter ==
    [processedHours |-> processedHours',
     processedRequirements |-> processedRequirements',
     employeeSummary |-> employeeSummary',
     taskMatrix |-> taskMatrix',
     taskKPIs |-> taskKPIs',
     teamFilter |-> [teamsData |-> teamsData', currentTeam |-> currentTeam']]

NoCall == [op |-> "none"]

\* new DataProcessor(), new TeamFilter()
Init ==
    /\ hoursData = <<>>
    /\ requirementsData = <<>>
    /\ processedHours = <<>>
    /\ processedRequirements = <<>>
    /\ employeeSummary = <<>>
    /\ taskMatrix = [defined |-> FALSE, value |-> <<>>]
    /\ taskKPIs = [defined |-> FALSE,
                   value |-> [total |-> 0, overloaded |-> 0, investment |-> 0, expense |-> 0]]
    /\ teamsData = Null
    /\ currentTeam = ALL
    /\ call = NoCall

\* updateData('hours', data): processHours, buildEmployeeSummary, buildTaskMatrix;
\* load is the dataset with derived = hoursPipeline(data).
UpdateHours(load) ==
    /\ hoursData' = load.data
    /\ processedHours' = load.derived.processedHours
    /\ employeeSummary' = load.derived.employeeSummary
    /\ taskMatrix' = [defined |-> TRUE, value |-> load.derived.taskMatrix]
    /\ taskKPIs' = [defined |-> TRUE, value |-> load.derived.taskKPIs]
    /\ UNCHANGED <<requirementsData, processedRequirements, teamsData, currentTeam, call>>

\* updateData('requirements', data): processRequirements, linkHoursToRequirements;
\* load is the dataset with normalized = normalizeRequirements(data).
UpdateRequirements(load) ==
    /\ requirementsData' = load.data
    /\ processedRequirements' = linkHoursToRequirements(processedHours, load.normalized)
    /\ UNCHANGED <<hoursData, processedHours, employeeSummary, taskMatrix, taskKPIs,
                   teamsData, currentTeam, call>>

\* TeamFilter.init: the structure is loaded (fetched, or the default), then the
\* saved team, else the selector's value, becomes the current team.
TeamFilterInit(structure, teamId) ==
    /\ teamsData = Null
    /\ teamsData' = structure
    /\ currentTeam' = teamId
    /\ UNCHANGED <<hoursData, requirementsData, processedHours, processedRequirements,
                   employeeSummary, taskMatrix, taskKPIs, call>>

\* setCurrentTeam that narrows the held hours records to the selected team.
setCurrentTeamNarrowing(teamId) ==
    /\ teamsData # Null
    /\ currentTeam' = teamId
    /\ processedHours' = filterHoursData([TF EXCEPT !.currentTeam = teamId], processedHours)
    /\ UNCHANGED <<hoursData, requirementsData, processedRequirements,
                   employeeSummary, taskMatrix, taskKPIs, teamsData, call>>

\* setCurrentTeam(teamId), from the selector's change listener (installed by init
\* once the structure is loaded); onTeamChange only re-reads the accessors.
setCurrentTeam(teamId) ==
    /\ teamsData # Null
    /\ currentTeam' = teamId
    /\ UNCHANGED <<hoursData, requirementsData, processedHours, processedRequirements,
                   employeeSummary, taskMatrix, taskKPIs, teamsData, call>>

Next ==
    \/ \E load \in HoursLoads : UpdateHours(load)
    \/ \E load \in ReqLoads : UpdateRequirements(load)
    \/ \E teamId \in MainTeamIds : TeamFilterInit(getDefaultTeamsStructure, teamId)
    \/ \E teamId \in MainTeamIds : setCurrentTeam(teamId)

Spec == Init /\ [][Next]_vars


(***************************************************************************)
(* TeamFilter on its own: the structure that init loads, the selections,   *)
(* and direct calls of the membership test and of the two filters (each    *)
(* filter applied to a list and then to its own result).                   *)
(***************************************************************************)
MaxListLen == 2

\* Employee ids as callers hold them: text, numbers, padded text, a prefix of an
\* id, undefined, '', null.
EmployeeIdInputs ==
    {Str(<<51,57,53,54,48,50>>), Num(395602), Str(<<32,51,57,53,54,48,50,32>>),
     Str(<<50,49,56,54,54,56>>), Num(218668), Str(<<50,49,56,52,53,50>>),
     Str(<<51,57,53,54>>), Num(158429), Str(<<>>), Undefined, Null,
     Str(<<117,110,100,101,102,105,110,101,100>>)}

\* The employeeId / id fields of the records the filters receive.
ListIdInputs == {<<51,57,53,54,48,50>>, <<50,49,56,52,53,50>>, <<>>}

EmployeeLists == {[i \in DOMAIN ids |-> [id |-> ids[i]]] : ids \in BoundedSeqs(ListIdInputs, MaxListLen)}

HoursLists ==
    {[i \in DOMAIN ids |-> [employeeId |-> ids[i]]] : ids \in BoundedSeqs(ListIdInputs, MaxListLen)}

UnchangedData ==
    UNCHANGED <<hoursData, requirementsData, processedHours, processedRequirements,
                employeeSummary, taskMatrix, taskKPIs>>

CallIsEmployeeInCurrentTeam(employeeId) ==
    /\ call' = [op |-> "isEmployeeInCurrentTeam", self |-> TF, employeeId |-> employeeId,
                result |-> isEmployeeInCurrentTeam(TF, employeeId)]
    /\ UnchangedData
    /\ UNCHANGED <<teamsData, currentTeam>>

CallFilterEmployees(employees) ==
    /\ call' = [op |-> "filterEmployees", self |-> TF, list |-> employees,
                result |-> filterEmployees(TF, employees),
                again |-> filterEmployees(TF, filterEmployees(TF, employees))]
    /\ UnchangedData
    /\ UNCHANGED <<teamsData, currentTeam>>

CallFilterHoursData(rows) ==
    /\ call' = [op |-> "filterHoursData", self |-> TF, list |-> rows,
                result |-> filterHoursData(TF, rows),
                again |-> filterHoursData(TF, filterHoursData(TF, rows))]
    /\ UnchangedData
    /\ UNCHANGED <<teamsData, currentTeam>>

NextTeam ==
    \/ \E structure \in TeamsInputs, teamId \in TeamIdInputs : TeamFilterInit(structure, teamId)
    \/ \E teamId \in TeamIdInputs : setCurrentTeam(teamId)
    \/ \E employeeId \in EmployeeIdInputs : CallIsEmployeeInCurrentTeam(employeeId)
    \/ \E employees \in EmployeeLists : CallFilterEmployees(employees)
    \/ \E rows \in HoursLists : CallFilterHoursData(rows)

SpecTeam == Init /\ [][NextTeam]_vars

(***************************************************************************)
(* findColumn on its own: a row and a candidate list are drawn, then the   *)
(* resolver is applied.                                                    *)
(***************************************************************************)
MaxFindKeys == 2
MaxFindNames == 2

\* Headers of a row: 'Name', ' Name ', 'name', 'Full Name', 'ID'.
FindHeaders ==
    {<<78,97,109,101>>, <<32,78,97,109,101,32>>, <<110,97,109,101>>,
     <<70,117,108,108,32,78,97,109,101>>, <<73,68>>}

\* Candidate names: 'Name', 'NAME ', 'ID', 'Hours'.
FindNames ==
    {<<78,97,109,101>>, <<78,65,77,69,32>>, <<73,68>>, <<72,111,117,114,115>>}

NoRepeat(s) == \A i, j \in DOMAIN s : i # j => s[i] # s[j]

\* Rows of up to MaxFindKeys distinct headers; the cell under a header is the
\* text of that header, so that distinct headers hold distinct cells.
FindRows ==
    {[i \in DOMAIN ks |-> [k |-> ks[i], v |-> Str(ks[i])]] :
        ks \in {s \in BoundedSeqs(FindHeaders, MaxFindKeys) : NoRepeat(s)}}

FindCandidates == BoundedSeqs(FindNames, MaxFindNames)

InitFind ==
    /\ hoursData = <<>>
    /\ requirementsData = <<>>
    /\ processedHours = <<>>
    /\ processedRequirements = <<>>
    /\ employeeSummary = <<>>
    /\ taskMatrix = [defined |-> FALSE, value |-> <<>>]
    /\ taskKPIs = [defined |-> FALSE,
                   value |-> [total |-> 0, overloaded |-> 0, investment |-> 0, expense |-> 0]]
    /\ teamsData = Null
    /\ currentTeam = ALL
    /\ call \in {[op |-> "findColumn", row |-> row, possibleNames |-> names,
                  done |-> FALSE, result |-> Null] :
                    row \in FindRows, names \in FindCandidates}

CallFindColumn ==
    /\ ~call.done
    /\ call' = [call EXCEPT !.done = TRUE,
                            !.result = findColumn(call.row, call.possibleNames)]
    /\ UnchangedData
    /\ UNCHANGED <<teamsData, currentTeam>>

NextFind == CallFindColumn

SpecFind == InitFind /\ [][NextFind]_vars


(***************************************************************************)
(* binary64 addition.  Hours cells need not be integers, and the sums of   *)
(* buildEmployeeSummary are rounded.  A binary64 value that arises from    *)
(* adding decimal cells with one fractional digit is held exactly as       *)
(* [k, d]: it equals k/10 + d * 2^-56 / 10, with k the tenths and d the    *)
(* accumulated rounding error (|d| is far below 2^56, so values compare    *)
(* first by k and then by d).  A value in [2^e, 2^(e+1)), e >= -4, has     *)
(* its unit in the last place at 2^(e-52), which is 10 * 2^(e+4) of the    *)
(* error units.                                                            *)
(***************************************************************************)
RECURSIVE Pow2(_)
Pow2(n) == IF n = 0 THEN 1 ELSE 2 * Pow2(n - 1)

\* 2^n mod 10, n >= 1
Pow2Mod10(n) == <<6, 2, 4, 8>>[(n % 4) + 1]

MaxExponent == 12

\* The binary exponent e of the exact value [k, d], k >= 1.
exponent64(k, d) ==
    LET atLeast(e) ==
            \/ 16 * k > 10 * Pow2(e + 4)
            \/ (16 * k = 10 * Pow2(e + 4) /\ d >= 0)
        E == {e \in (-4)..MaxExponent : atLeast(e)}
    IN CHOOSE e \in E : \A f \in E : f <= e

\* The exact value [k, d] rounded to the nearest binary64, ties to even.
round64(k, d) ==
    IF k = 0 /\ d = 0 THEN [k |-> 0, d |-> 0]
    ELSE LET e == exponent64(k, d)
             ulp == 10 * Pow2(e + 4)
             \* the value modulo one and two units in the last place
             res == (Pow2(e + 4) * ((k * Pow2Mod10(52 - e)) % 10) + d) % ulp
             res2 == (Pow2(e + 5) * ((k * Pow2Mod10(51 - e)) % 10) + d) % (2 * ulp)
             down == [k |-> k, d |-> d - res]
             up == [k |-> k, d |-> d + ulp - res]
         IN IF 2 * res < ulp THEN down
            ELSE IF 2 * res > ulp THEN up
            ELSE IF res2 = res THEN down ELSE up

\* x + y
add64(x, y) == round64(x.k + y.k, x.d + y.d)

\* The number a cell holds for the decimal tenths/10.
decimal64(tenths) == round64(tenths, 0)

\* buildEmployeeSummary, first loop, for the records of one employee: the four
\* totals after the records are added in order.
buildEmployeeSummary64(hours) ==
    LET zero == [k |-> 0, d |-> 0]
        add(emp, row) ==
            [totalHours |-> add64(emp.totalHours, row.hours),
             investmentHours |->
                 IF row.type = WT_INVESTMENT THEN add64(emp.investmentHours, row.hours)
                 ELSE emp.investmentHours,
             expenseHours |->
                 IF row.type = WT_EXPENSE THEN add64(emp.expenseHours, row.hours)
                 ELSE emp.expenseHours,
             absenceHours |->
                 IF row.type = WT_ABSENCE THEN add64(emp.absenceHours, row.hours)
                 ELSE emp.absenceHours]
        fold[i \in 0..Len(hours)] ==
            IF i = 0
            THEN [totalHours |-> zero, investmentHours |-> zero, expenseHours |-> zero,
                  absenceHours |-> zero]
            ELSE add(fold[i - 1], hours[i])
    IN fold[Len(hours)]

MaxSumRows == 3

\* Records of one employee: 0.1, 0.2 or 0.7 hours, classified.
SumRecords ==
    {[hours |-> decimal64(tenths), type |-> type] :
        tenths \in {1, 2, 7}, type \in {WT_INVESTMENT, WT_EXPENSE, WT_ABSENCE}}

SumInputs == BoundedSeqs(SumRecords, MaxSumRows)

InitSum ==
    /\ hoursData = <<>>
    /\ requirementsData = <<>>
    /\ processedHours = <<>>
    /\ processedRequirements = <<>>
    /\ employeeSummary = <<>>
    /\ taskMatrix = [defined |-> FALSE, value |-> <<>>]
    /\ taskKPIs = [defined |-> FALSE,
                   value |-> [total |-> 0, overloaded |-> 0, investment |-> 0, expense |-> 0]]
    /\ teamsData = Null
    /\ currentTeam = ALL
    /\ call \in {[op |-> "buildEmployeeSummary", hours |-> hours, done |-> FALSE,
                  summary |-> buildEmployeeSummary64(<<>>)] : hours \in SumInputs}

CallBuildEmployeeSummary ==
    /\ ~call.done
    /\ call' = [call EXCEPT !.done = TRUE, !.summary = buildEmployeeSummary64(call.hours)]
    /\ UnchangedData
    /\ UNCHANGED <<teamsData, currentTeam>>

NextSum == CallBuildEmployeeSummary

SpecSum == InitSum /\ [][NextSum]_vars


(***************************************************************************)
(* Properties of the dataset loads and team selections (Spec)              *)
(***************************************************************************)
\* Sum of the hours of the records whose extracted requirement id is id.
HoursOfRequirement(hours, id) ==
    SumSeq(hours, LAMBDA row :
        IF row.requirement # <<>> /\ row.requirement = id THEN row.hours ELSE 0)

\* C1: in every reachable state, every processed requirement's actualHours is the
\* sum of the hours of the processed hours records currently held whose
\* extracted requirement id is that requirement's id (0 if there is none).
C1_ActualHoursCurrent ==
    \A i \in DOMAIN processedRequirements :
        processedRequirements[i].actualHours =
            HoursOfRequirement(processedHours, processedRequirements[i].id)

\* The hours records were replaced after the requirements were linked.
C1_HoursLoadedAfterRequirements ==
    /\ requirementsData = <<ReqBuild>>
    /\ hoursData = <<RowDanaInvest>>
    /\ processedRequirements[1].actualHours = 0

\* The employee id a raw hours row resolves to, and the raw rows of a dataset
\* whose resolved id is not excluded.
ResolvedEmployeeId(row) ==
    String(Or(findColumn(row, CONFIG.HOURS_COLUMNS.EMPLOYEE_ID), Str(<<>>)))

ExcludedIds == {CONFIG.EXCLUDED_EMPLOYEE_IDS[i] : i \in DOMAIN CONFIG.EXCLUDED_EMPLOYEE_IDS}

WithoutExcluded(data) == SelectSeq(data, LAMBDA row : ResolvedEmployeeId(row) \notin ExcludedIds)

\* The views of a DataProcessor that are derived from the hours records.
HoursViews(self) ==
    [processedHours |-> self.processedHours,
     getHours |-> getHours(self),
     employeeSummary |-> self.employeeSummary,
     getEmployeesArray |-> getEmployeesArray(self),
     getTaskMatrix |-> getTaskMatrix(self),
     getTasksGrouped |-> getTasksGrouped(self)]

\* The DataProcessor that results from loading data into self.
Loaded(self, data) ==
    [self EXCEPT !.processedHours = hoursPipeline(data).processedHours,
                 !.employeeSummary = hoursPipeline(data).employeeSummary,
                 !.taskMatrix = [defined |-> TRUE, value |-> hoursPipeline(data).taskMatrix],
                 !.taskKPIs = [defined |-> TRUE, value |-> hoursPipeline(data).taskKPIs]]

C2_NoExcludedInViews ==
    /\ \A i \in DOMAIN processedHours : processedHours[i].employeeId \notin ExcludedIds
    /\ \A i \in DOMAIN getHours(DP) : getHours(DP)[i].employeeId \notin ExcludedIds
    /\ \A i \in DOMAIN employeeSummary :
          /\ employeeSummary[i].key \notin ExcludedIds
          /\ employeeSummary[i].val.id \notin ExcludedIds
    /\ WithoutExcluded(hoursData) # hoursData =>
          HoursViews(DP) = HoursViews(Loaded(DP, WithoutExcluded(hoursData)))

C2_NoExcludedInActualHours ==
    (processedRequirements' # processedRequirements /\ WithoutExcluded(hoursData) # hoursData) =>
        \A i \in DOMAIN processedRequirements' :
            processedRequirements'[i].actualHours =
                HoursOfRequirement(hoursPipeline(WithoutExcluded(hoursData)).processedHours,
                                   processedRequirements'[i].id)

\* C2: after any sequence of dataset loads and team selections, a raw row whose
\* resolved employee id is in CONFIG.EXCLUDED_EMPLOYEE_IDS contributes nothing:
\* no record of processedHours or getHours and no entry of employeeSummary
\* carries such an id, every hours-derived view (processedHours, getHours,
\* employeeSummary, getEmployeesArray, getTaskMatrix, getTasksGrouped) is what
\* it would be had the dataset been loaded without those rows, and whenever the
\* requirements are linked their actualHours are the sums over the dataset
\* without those rows.
C2_ExcludedContributeNothing ==
    []C2_NoExcludedInViews /\ [][C2_NoExcludedInActualHours]_vars

\* An excluded employee's 8 hours on requirement 123456 were loaded next to
\* Dana's 5, a team is selected, and the requirement was linked: 5 hours.
C2_ExcludedRowLoaded ==
    /\ hoursData = <<RowDanaInvest, RowRonExcluded>>
    /\ Len(processedHours) = 1
    /\ currentTeam # ALL
    /\ requirementsData = <<ReqBuild>>
    /\ processedRequirements[1].actualHours = 5

\* A raw row that is to leave no record: the hours cell is absent, not a number, zero or
\* negative, or the employee name is absent or empty.
HoursCell(row) == findColumn(row, CONFIG.HOURS_COLUMNS.HOURS)

DroppableRow(row) ==
    \/ parseFloat(HoursCell(row)).k = "nan"
    \/ parseFloat(HoursCell(row)).n <= 0
    \/ ~Truthy(findColumn(row, CONFIG.HOURS_COLUMNS.EMPLOYEE_NAME))

WithoutDroppable(data) == SelectSeq(data, LAMBDA row : ~DroppableRow(row))

\* C3: in every reachable state every record of processedHours has a non-empty
\* employee and hours > 0; no record stems from a raw row whose hours are zero,
\* negative, absent or unparseable or whose employee name is empty, and every
\* hours-derived view is what it would be had the dataset been loaded without
\* those rows.
C3_OnlyPositiveNamedRecords ==
    /\ \A i \in DOMAIN processedHours :
          /\ Truthy(processedHours[i].employee)
          /\ processedHours[i].hours > 0
    /\ \A i \in DOMAIN hoursData :
          DroppableRow(hoursData[i]) =>
              \A j \in DOMAIN processedHours : processedHours[j].raw # hoursData[i]
    /\ WithoutDroppable(hoursData) # hoursData =>
          HoursViews(DP) = HoursViews(Loaded(DP, WithoutDroppable(hoursData)))

\* A row with unparseable hours was loaded after a valid row: one record.
C3_DroppableRowLoaded ==
    /\ Len(hoursData) = 2
    /\ HoursCell(hoursData[2]) = Str(<<97,98,99>>)
    /\ Len(processedHours) = 1
    /\ Len(employeeSummary) = 1


BelongsToCurrentTeam(self, id) ==
    LET team == getCurrentTeamData(self)
    IN /\ team # Null
       /\ \E i \in DOMAIN team.employees : trim(String(team.employees[i])) = trim(id)

\* Queries of the search accessors: none, 'build', the name of Yossi.
SearchQueries == {<<>>, <<98,117,105,108,100>>, Yossi.s}

\* C6: while a team other than 'all' is selected, every record of getHours and
\* searchHours and every employee of getEmployeesArray, searchEmployees,
\* getEmployeesByType and getLowInvestmentEmployees belongs to the team, the
\* task matrix counts the team's records alone, and every employee of
\* getTasksGrouped belongs to the team.
C6_ViewsHoldTeamMembersOnly ==
    currentTeam # ALL =>
        /\ \A i \in DOMAIN getHours(DP) : BelongsToCurrentTeam(TF, getHours(DP)[i].employeeId)
        /\ \A i \in DOMAIN getEmployeesArray(DP) :
              BelongsToCurrentTeam(TF, getEmployeesArray(DP)[i].id)
        /\ \A q \in SearchQueries :
              \A i \in DOMAIN searchEmployees(DP, q) :
                  BelongsToCurrentTeam(TF, searchEmployees(DP, q)[i].id)
        /\ \A type \in {ALL, ET_MATAF, ET_PROJECT} :
              \A i \in DOMAIN getEmployeesByType(DP, type) :
                  BelongsToCurrentTeam(TF, getEmployeesByType(DP, type)[i].id)
        /\ \A i \in DOMAIN getLowInvestmentEmployees(DP, 50) :
              BelongsToCurrentTeam(TF, getLowInvestmentEmployees(DP, 50)[i].id)
        /\ \A i \in DOMAIN getTasksGrouped(DP) :
              \A j \in DOMAIN getTasksGrouped(DP)[i].employees :
                  BelongsToCurrentTeam(TF, getTasksGrouped(DP)[i].employees[j].id)
        /\ \A q \in SearchQueries :
              ~searchHoursThrows(DP, q) =>
                  \A i \in DOMAIN searchHours(DP, q) :
                      BelongsToCurrentTeam(TF, searchHours(DP, q)[i].employeeId)
        /\ getTaskMatrix(DP) = buildTaskMatrix(getHours(DP))

\* Team logashi is selected while Yossi, of another team, has records.
C6_OtherTeamRecordHeld ==
    /\ currentTeam = <<108,111,103,97,115,104,105>>
    /\ hoursData = <<RowDanaInvest, RowYossiOther>>
    /\ Len(getHours(DP)) = 1
    /\ Len(searchHours(DP, Yossi.s)) = 1
    /\ Len(getTaskMatrix(DP)) = 2

\* The filtered views, read with team selected in place of the current team.
FilteredViews(self, team) ==
    LET s == [self EXCEPT !.teamFilter.currentTeam = team]
    IN [getEmployeesArray |-> getEmployeesArray(s),
        getHours |-> getHours(s),
        getTasksGrouped |-> getTasksGrouped(s),
        getStats |-> getStats(s),
        getHoursTotals |-> getHoursTotals(s)]

\* C9: a step that changes the selected team leaves hoursData, requirementsData,
\* processedHours, employeeSummary and processedRequirements unchanged, and
\* leaves unchanged what getEmployeesArray, getHours, getTasksGrouped, getStats
\* and getHoursTotals return under 'all' (so that a switch to a team and back
\* to 'all' returns the views read before the switch).
C9_TeamChangeKeepsData ==
    [][currentTeam' # currentTeam =>
          /\ UNCHANGED <<hoursData, requirementsData, processedHours, employeeSummary,
                         processedRequirements>>
          /\ FilteredViews(DPAfter, ALL) = FilteredViews(DP, ALL)]_vars

\* A team is selected whose view of the loaded hours is a proper, non-empty part.
C9_TeamViewNarrower ==
    /\ currentTeam # ALL
    /\ getHours(DP) # <<>>
    /\ getHours(DP) # processedHours
    /\ FilteredViews(DP, currentTeam) # FilteredViews(DP, ALL)
    /\ processedRequirements # <<>>


(***************************************************************************)
(* Properties of the TeamFilter calls (SpecTeam)                           *)
(***************************************************************************)
\* The teams of self whose id is the current team, and whether the trimmed
\* string form of employeeId is that of an entry of such a team's list.
CurrentTeams(self) ==
    IF self.teamsData = Null THEN {}
    ELSE {self.teamsData.teams[i] : i \in {j \in DOMAIN self.teamsData.teams :
                                              self.teamsData.teams[j].id = self.currentTeam}}

ListedInCurrentTeam(self, employeeId) ==
    \E team \in CurrentTeams(self) :
        \E i \in DOMAIN team.employees :
            trim(String(team.employees[i])) = trim(String(employeeId))

\* C7, as stated: isEmployeeInCurrentTeam returns true for every id when the
\* current team is 'all'; for any other current team id it returns true if
\* and only if the trimmed string form of the id is that of an entry of the
\* team's employees list.
C7_MemberIffListed ==
    call.op = "isEmployeeInCurrentTeam" =>
        call.result = (IF call.self.currentTeam = ALL THEN TRUE
                       ELSE ListedInCurrentTeam(call.self, call.employeeId))

\* C7, amended: isEmployeeInCurrentTeam returns true for every id when the
\* current team is 'all' or is no team of the loaded structure; for a current
\* team of the structure it returns true if and only if the trimmed string
\* form of the id is that of an entry of the team's employees list.
C7_MemberIffListedOrNoTeam ==
    call.op = "isEmployeeInCurrentTeam" =>
        call.result = (IF call.self.currentTeam = ALL \/ CurrentTeams(call.self) = {} THEN TRUE
                       ELSE ListedInCurrentTeam(call.self, call.employeeId))

\* The number 218668 was tested against a team that lists ' 218668 ', and an
\* unlisted id against the same team.
C7_PaddedEntryMatched ==
    /\ call.op = "isEmployeeInCurrentTeam"
    /\ call.self.teamsData = FetchedTeamsStructure
    /\ call.self.currentTeam = <<108,111,103,97,115,104,105>>
    /\ call.employeeId = Num(218668)
    /\ call.result = TRUE

\* C8: filterEmployees applied to its own result returns that result (same
\* elements, same order), for every list and every current team; likewise
\* filterHoursData.
C8_FiltersIdempotent ==
    call.op \in {"filterEmployees", "filterHoursData"} => call.again = call.result

\* A filter kept part of a list under a team other than 'all'.
C8_ListNarrowed ==
    /\ call.op = "filterHoursData"
    /\ call.self.currentTeam # ALL
    /\ Len(call.list) = 2
    /\ Len(call.result) = 1
    /\ call.again = call.result

(***************************************************************************)
(* Properties of findColumn (SpecFind)                                     *)
(***************************************************************************)
\* The headers of row that equal name after trimming, and those that hold
\* name as a case-insensitive substring (positions in the row).
ExactHeaders(row, name) == {i \in DOMAIN row : trim(row[i].k) = trim(name)}

SubstringHeaders(row, name) ==
    {i \in DOMAIN row : includes(toLowerCase(trim(row[i].k)), toLowerCase(trim(name)))}

\* C10: if headers of the row equal candidates after trimming, findColumn
\* returns the value under the earliest such candidate of the list; if none
\* does, the value under the first candidate that is a case-insensitive
\* substring of a header; if neither pass matches, null.  An exact match of
\* any candidate precedes a substring match of an earlier candidate.
C10_FindColumnOrder ==
    call.done =>
        LET row == call.row
            names == call.possibleNames
            exact == {j \in DOMAIN names : ExactHeaders(row, names[j]) # {}}
            sub == {j \in DOMAIN names : SubstringHeaders(row, names[j]) # {}}
        IN /\ exact # {} =>
                 call.result = row[Min(ExactHeaders(row, names[Min(exact)]))].v
           /\ (exact = {} /\ sub # {}) =>
                 call.result = row[Min(SubstringHeaders(row, names[Min(sub)]))].v
           /\ (exact = {} /\ sub = {}) => call.result = Null
           /\ exact # {} =>
                 \E i \in DOMAIN row :
                     /\ call.result = row[i].v
                     /\ \E j \in DOMAIN names : i \in ExactHeaders(row, names[j])

\* 'Name' is a substring of the header 'Full Name' and 'ID' equals the header
\* 'ID': the later candidate's value was returned.
C10_ExactBeatsEarlierSubstring ==
    /\ call.done
    /\ call.row = << [k |-> <<70,117,108,108,32,78,97,109,101>>,
                      v |-> Str(<<70,117,108,108,32,78,97,109,101>>)],
                     [k |-> <<73,68>>, v |-> Str(<<73,68>>)] >>
    /\ call.possibleNames = << <<78,97,109,101>>, <<73,68>> >>
    /\ call.result = Str(<<73,68>>)

(***************************************************************************)
(* Properties of the employee totals under binary64 (SpecSum)              *)
(***************************************************************************)
\* x <= y, x and y exact values [k, d]
LessEq64(x, y) == x.k < y.k \/ (x.k = y.k /\ x.d <= y.d)

\* C4 (totals): after the records are summed,
\* investmentHours + expenseHours + absenceHours <= totalHours, the left side
\* being the exact sum of the three totals.
C4_BucketsWithinTotal ==
    call.done =>
        LessEq64([k |-> call.summary.investmentHours.k + call.summary.expenseHours.k
                            + call.summary.absenceHours.k,
                  d |-> call.summary.investmentHours.d + call.summary.expenseHours.d
                            + call.summary.absenceHours.d],
                 call.summary.totalHours)

\* 0.2 investment, 0.7 expense and 0.2 investment hours were summed.
C4_FractionalHoursSummed ==
    /\ call.done
    /\ call.hours = << [hours |-> decimal64(2), type |-> WT_INVESTMENT],
                       [hours |-> decimal64(7), type |-> WT_EXPENSE],
                       [hours |-> decimal64(2), type |-> WT_INVESTMENT] >>
    /\ call.summary.totalHours = [k |-> 11, d |-> -96]
    /\ call.summary.investmentHours = [k |-> 4, d |-> 16]
    /\ call.summary.expenseHours = [k |-> 7, d |-> -32]

\* C4 on integer hours (Spec): for every employee summary the three totals sum
\* to at most totalHours and both percentages lie in [0, 100].
C4_IntegerHoursWithinTotal ==
    \A i \in DOMAIN employeeSummary :
        LET emp == employeeSummary[i].val
        IN /\ emp.investmentHours + emp.expenseHours + emp.absenceHours <= emp.totalHours
           /\ emp.investmentPercent.den > 0 /\ emp.expensePercent.den > 0
           /\ 0 <= emp.investmentPercent.num
           /\ emp.investmentPercent.num <= 100 * emp.investmentPercent.den
           /\ 0 <= emp.expensePercent.num
           /\ emp.expensePercent.num <= 100 * emp.expensePercent.den


(***************************************************************************)
(* classifyWorkType on its own: a label is drawn, then the classifier is   *)
(* applied.                                                                *)
(***************************************************************************)
MaxLabelParts == 2

\* The state of a DataProcessor and TeamFilter that hold no data.
NoData ==
    /\ hoursData = <<>>
    /\ requirementsData = <<>>
    /\ processedHours = <<>>
    /\ processedRequirements = <<>>
    /\ employeeSummary = <<>>
    /\ taskMatrix = [defined |-> FALSE, value |-> <<>>]
    /\ taskKPIs = [defined |-> FALSE,
                   value |-> [total |-> 0, overloaded |-> 0, investment |-> 0, expense |-> 0]]
    /\ teamsData = Null
    /\ currentTeam = ALL

\* Parts of a classification label: keywords of the three lists in other
\* letter case than the lists hold, text of no list, a space.
LabelParts ==
    {<<105,110,118,101,115,116,109,101,110,116>>,     \* 'investment'
     <<68,69,86,69,76,79,80,77,69,78,84>>,            \* 'DEVELOPMENT'
     <<1492,1513,1511,1506,1492>>,                    \* '\u05d4\u05e9\u05e7\u05e2\u05d4'
     <<101,120,112,101,110,115,101>>,                 \* 'expense'
     <<1514,1495,1494,1493,1511,1492>>,               \* '\u05ea\u05d7\u05d6\u05d5\u05e7\u05d4'
     <<115,73,67,75>>,                                \* 'sICK'
     <<76,69,65,86,69>>,                              \* 'LEAVE'
     <<1495,1493,1508,1513>>,                         \* '\u05d7\u05d5\u05e4\u05e9'
     <<109,105,115,99>>,                              \* 'misc'
     <<32>>}                                          \* ' '

RECURSIVE Concat(_)
Concat(parts) == IF parts = <<>> THEN <<>> ELSE Head(parts) \o Concat(Tail(parts))

\* The values classifyWorkType receives: text of up to MaxLabelParts parts,
\* numbers, null, undefined.
LabelInputs ==
    {Str(Concat(parts)) : parts \in BoundedSeqs(LabelParts, MaxLabelParts)}
        \cup {Num(0), Num(7), Null, Undefined}

InitClassify ==
    /\ NoData
    /\ call \in {[op |-> "classifyWorkType", typeValue |-> v, done |-> FALSE,
                  result |-> <<>>] : v \in LabelInputs}

CallClassifyWorkType ==
    /\ ~call.done
    /\ call' = [call EXCEPT !.done = TRUE, !.result = classifyWorkType(call.typeValue)]
    /\ UnchangedData
    /\ UNCHANGED <<teamsData, currentTeam>>

NextClassify == CallClassifyWorkType

SpecClassify == InitClassify /\ [][NextClassify]_vars

(***************************************************************************)
(* Properties of classifyWorkType (SpecClassify)                           *)
(***************************************************************************)
\* Letter case folded to capitals.
FoldCase(c) == IF c \in 97..122 THEN c - 32 ELSE c

\* keyword occurs in label, letter case disregarded.
ContainsKeyword(label, keyword) ==
    \E i \in 0..(Len(label) - Len(keyword)) :
        \A j \in 1..Len(keyword) : FoldCase(label[i + j]) = FoldCase(keyword[j])

\* The label holds a keyword of the list.
MatchesList(label, list) == \E k \in DOMAIN list : ContainsKeyword(label, list[k])

\* The text of a label: empty for '', 0, null and undefined.
LabelText(v) == IF Truthy(v) THEN String(v) ELSE <<>>

\* C11: classifyWorkType returns the first of INVESTMENT, EXPENSE, ABSENCE of
\* which a keyword occurs in the label, letter case disregarded: a label with
\* an INVESTMENT keyword resolves to INVESTMENT whatever else it matches, one
\* with EXPENSE and ABSENCE keywords only resolves to EXPENSE, one with ABSENCE
\* keywords only to ABSENCE, and an empty or non-matching label to OTHER.
C11_FirstCategoryWins ==
    call.done =>
        LET label == LabelText(call.typeValue)
            inv == MatchesList(label, CONFIG.WORK_TYPES.INVESTMENT)
            exp == MatchesList(label, CONFIG.WORK_TYPES.EXPENSE)
            abs == MatchesList(label, CONFIG.WORK_TYPES.ABSENCE)
        IN /\ inv => call.result = WT_INVESTMENT
           /\ (~inv /\ exp) => call.result = WT_EXPENSE
           /\ (~inv /\ ~exp /\ abs) => call.result = WT_ABSENCE
           /\ (~inv /\ ~exp /\ ~abs) => call.result = WT_OTHER
           /\ label = <<>> => call.result = WT_OTHER

\* The label 'sICKinvestment', an ABSENCE keyword before an INVESTMENT keyword,
\* was classified INVESTMENT.
C11_AbsenceThenInvestmentLabel ==
    /\ call.done
    /\ call.typeValue = Str(<<115,73,67,75,105,110,118,101,115,116,109,101,110,116>>)
    /\ call.result = WT_INVESTMENT


(***************************************************************************)
(* buildTaskMatrix on its own: hours records of up to MaxTasks tasks are   *)
(* drawn, then the matrix is built.                                        *)
(***************************************************************************)
MaxTasks == 21

\* The employee counts of the tasks of a dataset, task i of n: all 1; every
\* seventh task 2; the last task alone 2; the first task alone 2.
CountPatterns == 1..4

EmployeesOfTask(pattern, i, n) ==
    <<1,
      IF i % 7 = 0 THEN 2 ELSE 1,
      IF i = n THEN 2 ELSE 1,
      IF i = 1 THEN 2 ELSE 1>>[pattern]

\* The task cell of task i: text 'T<i>'; under the style "index" every fifth
\* task is the text of the number 50 - i (an array index as a property key).
TaskCell(style, i) ==
    IF style = "index" /\ i % 5 = 0 THEN Str(NatToString(50 - i))
    ELSE Str(<<84>> \o NatToString(i))

\* The records of task i: one per employee 'E1'.., and for the first task 'E1'
\* once more.
TaskRecords(style, pattern, i, n) ==
    [e \in 1..(EmployeesOfTask(pattern, i, n) + (IF i = 1 THEN 1 ELSE 0)) |->
        [task |-> TaskCell(style, i),
         employee |-> Str(<<69>> \o NatToString(IF e > EmployeesOfTask(pattern, i, n) THEN 1 ELSE e)),
         hours |-> 1,
         type |-> WT_OTHER]]

\* The records of n tasks, task by task, after a record without task if blank.
MatrixRecords(style, pattern, n, blank) ==
    LET all[i \in 0..n] ==
            IF i = 0
            THEN IF blank
                 THEN << [task |-> Str(<<>>), employee |-> Str(<<69,49>>), hours |-> 1,
                          type |-> WT_OTHER] >>
                 ELSE <<>>
            ELSE all[i - 1] \o TaskRecords(style, pattern, i, n)
    IN all[n]

MatrixInputs ==
    {MatrixRecords(style, pattern, n, blank) :
        style \in {"text", "index"}, pattern \in CountPatterns, n \in 0..MaxTasks,
        blank \in BOOLEAN}

InitMatrix ==
    /\ NoData
    /\ call \in {[op |-> "buildTaskMatrix", hours |-> hours, done |-> FALSE,
                  result |-> <<>>] : hours \in MatrixInputs}

CallBuildTaskMatrix ==
    /\ ~call.done
    /\ call' = [call EXCEPT !.done = TRUE, !.result = buildTaskMatrix(call.hours)]
    /\ UnchangedData
    /\ UNCHANGED <<teamsData, currentTeam>>

NextMatrix == CallBuildTaskMatrix

SpecMatrix == InitMatrix /\ [][NextMatrix]_vars

(***************************************************************************)
(* Properties of buildTaskMatrix (SpecMatrix)                              *)
(***************************************************************************)
\* The distinct non-empty tasks of the records, and the number of distinct
\* employees of a task.
TasksOf(hours) ==
    {String(hours[i].task) : i \in {j \in DOMAIN hours : Truthy(hours[j].task)}}

EmployeeCountOf(hours, task) ==
    Cardinality({hours[i].employee :
                    i \in {j \in DOMAIN hours :
                              Truthy(hours[j].task) /\ String(hours[j].task) = task}})

\* C12: the task matrix holds exactly min(number of distinct non-empty tasks,
\* MAX_MATRIX_TASKS) entries, each a distinct task with its number of distinct
\* employees, in order of non-increasing employee count, and every task left
\* out has an employee count no greater than that of every task included.
C12_MatrixCappedAndOrdered ==
    call.done =>
        LET tasks == TasksOf(call.hours)
            m == call.result
            included == {m[i].name : i \in DOMAIN m}
        IN /\ Len(m) = IF Cardinality(tasks) < CONFIG.MAX_MATRIX_TASKS
                       THEN Cardinality(tasks) ELSE CONFIG.MAX_MATRIX_TASKS
           /\ included \subseteq tasks
           /\ Cardinality(included) = Len(m)
           /\ \A i \in DOMAIN m : m[i].employeeCount = EmployeeCountOf(call.hours, m[i].name)
           /\ \A i, j \in DOMAIN m : i < j => m[i].employeeCount >= m[j].employeeCount
           /\ \A t \in tasks \ included :
                 \A i \in DOMAIN m : EmployeeCountOf(call.hours, t) <= m[i].employeeCount

\* Of 21 tasks the last alone has 2 employees: it heads the matrix of 20
\* entries and a task of 1 employee is left out.
C12_MoreTasksThanCap ==
    /\ call.done
    /\ Cardinality(TasksOf(call.hours)) = CONFIG.MAX_MATRIX_TASKS + 1
    /\ Len(call.result) = CONFIG.MAX_MATRIX_TASKS
    /\ call.result[1].name = <<84,50,49>>                 \* 'T21'
    /\ call.result[1].employeeCount = 2
    /\ call.result[CONFIG.MAX_MATRIX_TASKS].employeeCount = 1


(***************************************************************************)
(* Properties of the summaries, the task views and the searches (Spec)     *)
(***************************************************************************)
\* C14 (searches): in every reachable state searchHours and searchEmployees
\* return for every query, whatever strings and numbers the cells of the
\* loaded rows hold.
C14_SearchesNeverThrow ==
    \A q \in SearchQueries :
        /\ ~searchHoursThrows(DP, q)
        /\ ~searchEmployeesThrows(DP, q)

\* A row whose employee name cell is the number 7 was loaded and kept.
C14_NumericNameLoaded ==
    /\ hoursData = <<RowNumericName>>
    /\ Len(processedHours) = 1
    /\ processedHours[1].employee = Num(7)
    /\ Len(employeeSummary) = 1

Max(S) == CHOOSE x \in S : \A y \in S : y <= x

\* The key of an hours record: its employee id if non-empty, else the string
\* form of its employee name; the positions of the records of a key.
RecordKey(record) ==
    IF record.employeeId # <<>> THEN record.employeeId ELSE String(record.employee)

RecordsOfKey(hours, key) == {i \in DOMAIN hours : RecordKey(hours[i]) = key}

RawEmployeeType(row) ==
    trim(String(Or(findColumn(row, CONFIG.HOURS_COLUMNS.EMPLOYEE_TYPE), Str(<<>>))))

\* text without a leading '\u05e2\u05d5\u05d1\u05d3' qualifier.
WithoutQualifier(text) ==
    IF /\ Len(text) > 4
       /\ SubSeq(text, 1, 4) = <<1506,1493,1489,1491>>
       /\ IsSpace(text[5])
    THEN trim(SubSeq(text, 5, Len(text)))
    ELSE text

\* The type an employee summary is to show for a raw employee-type text.
TypeOfRawText(text) ==
    IF text = <<>> THEN <<1500,1488,32,1502,1493,1490,1491,1512>>          \* '\u05dc\u05d0 \u05de\u05d5\u05d2\u05d3\u05e8'
    ELSE IF \/ ContainsKeyword(text, <<1502,1514,1507>>)                   \* '\u05de\u05ea\u05e3'
            \/ ContainsKeyword(text, <<109,97,116,97,102>>)                \* 'mataf'
    THEN <<1502,1514,1507>>
    ELSE IF \/ ContainsKeyword(text, <<1508,1512,1493,1497,1511,1496>>)    \* '\u05e4\u05e8\u05d5\u05d9\u05e7\u05d8'
            \/ ContainsKeyword(text, <<112,114,111,106,101,99,116>>)       \* 'project'
    THEN <<1508,1512,1493,1497,1511,1496,1500,1497>>                       \* '\u05e4\u05e8\u05d5\u05d9\u05e7\u05d8\u05dc\u05d9'
    ELSE WithoutQualifier(text)

\* C16: the type of every employee summary is derived from the raw
\* employee-type text of the first row of the employee: MATAF for text with a
\* MATAF synonym, PROJECT for text with a PROJECT synonym, the text itself
\* (without the leading qualifier) for other non-empty text, and UNDEFINED for
\* an empty or missing text.
C16_TypeFromRawText ==
    \A i \in DOMAIN employeeSummary :
        LET first == processedHours[Min(RecordsOfKey(processedHours, employeeSummary[i].key))]
        IN employeeSummary[i].val.type = TypeOfRawText(RawEmployeeType(first.raw))

\* C16 for the rows whose raw employee-type text holds a MATAF or PROJECT synonym.
C16_SynonymTypes ==
    \A i \in DOMAIN employeeSummary :
        LET first == processedHours[Min(RecordsOfKey(processedHours, employeeSummary[i].key))]
            text == RawEmployeeType(first.raw)
        IN TypeOfRawText(text) \in {<<1502,1514,1507>>, <<1508,1512,1493,1497,1511,1496,1500,1497>>}
              => employeeSummary[i].val.type = TypeOfRawText(text)

\* The guest's row, which has no employee-type cell, was loaded: the summary
\* shows the type MATAF.
C16_MissingTypeLoaded ==
    /\ hoursData = <<RowGuestAbsence>>
    /\ RawEmployeeType(hoursData[1]) = <<>>
    /\ Len(employeeSummary) = 1
    /\ employeeSummary[1].val.type = <<1502,1514,1507>>

\* The name under which getTasksGrouped files a record, and the
\* classification of the last of the given records that is not OTHER.
NoTaskName == Str(<<1500,1500,1488,32,1502,1513,1497,1502,1492>>)    \* '\u05dc\u05dc\u05d0 \u05de\u05e9\u05d9\u05de\u05d4'

GroupName(record) == IF Truthy(record.task) THEN record.task ELSE NoTaskName

LastNonOther(hours, S) ==
    LET classified == {i \in S : hours[i].type # WT_OTHER}
    IN IF classified = {} THEN WT_OTHER ELSE hours[Max(classified)].type

MatrixRecordsOf(hours, name) ==
    {i \in DOMAIN hours : Truthy(hours[i].task) /\ String(hours[i].task) = name}

GroupRecordsOf(hours, name) == {i \in DOMAIN hours : GroupName(hours[i]) = name}

\* C17 (task matrix): the type of every entry of the task matrix is the
\* classification of the last record of the task that is not OTHER, and OTHER
\* when there is none.
C17_MatrixTypeLastNonOther ==
    \A i \in DOMAIN getTaskMatrix(DP) :
        getTaskMatrix(DP)[i].type =
            LastNonOther(processedHours, MatrixRecordsOf(processedHours, getTaskMatrix(DP)[i].name))

\* C17: in the task matrix and in the grouped task list, the type of every
\* task is the classification of the last record of the task, in input order,
\* that is not OTHER, and OTHER when every record of the task is OTHER.
C17_TypeLastNonOther ==
    /\ C17_MatrixTypeLastNonOther
    /\ \A i \in DOMAIN getTasksGrouped(DP) :
          getTasksGrouped(DP)[i].type =
              LastNonOther(getHours(DP), GroupRecordsOf(getHours(DP), getTasksGrouped(DP)[i].name))

\* Investment hours and then expense hours were loaded for one task: the
\* matrix shows the task as expense, the grouped list as investment.
C17_TwoClassificationsOneTask ==
    /\ hoursData = <<RowDanaInvest, RowDanaExpense>>
    /\ currentTeam = ALL
    /\ Len(getTaskMatrix(DP)) = 1
    /\ getTaskMatrix(DP)[1].type = WT_EXPENSE
    /\ Len(getTasksGrouped(DP)) = 1
    /\ getTasksGrouped(DP)[1].type = WT_INVESTMENT

\* C18 (task matrix): every entry of the task matrix is a non-empty task of
\* the processed records, with the hours and the employees of the records of
\* that task alone.
C18_MatrixSkipsEmptyTask ==
    \A i \in DOMAIN getTaskMatrix(DP) :
        LET entry == getTaskMatrix(DP)[i]
        IN /\ entry.name \in TasksOf(processedHours)
           /\ entry.totalHours =
                  SumSeq(processedHours, LAMBDA r :
                      IF Truthy(r.task) /\ String(r.task) = entry.name THEN r.hours ELSE 0)
           /\ entry.employeeCount = EmployeeCountOf(processedHours, entry.name)

\* C18: records with an empty task make no entry and add no hours or
\* employees, in the task matrix and in the grouped task list: every entry is
\* named by the non-empty task of its records and there are as many entries
\* as distinct non-empty tasks.
C18_EmptyTaskSkipped ==
    /\ C18_MatrixSkipsEmptyTask
    /\ \A i \in DOMAIN getTasksGrouped(DP) :
          LET entry == getTasksGrouped(DP)[i]
          IN /\ \E j \in DOMAIN getHours(DP) :
                    Truthy(getHours(DP)[j].task) /\ getHours(DP)[j].task = entry.name
             /\ entry.totalHours =
                    SumSeq(getHours(DP), LAMBDA r :
                        IF Truthy(r.task) /\ r.task = entry.name THEN r.hours ELSE 0)
    /\ Len(getTasksGrouped(DP)) =
          Cardinality({getHours(DP)[j].task :
                          j \in {k \in DOMAIN getHours(DP) : Truthy(getHours(DP)[k].task)}})

\* The guest's 2 hours without task were loaded: the matrix is empty and the
\* grouped list holds an entry of 2 hours.
C18_RecordWithoutTaskLoaded ==
    /\ hoursData = <<RowGuestAbsence>>
    /\ currentTeam = ALL
    /\ Len(processedHours) = 1
    /\ getTaskMatrix(DP) = <<>>
    /\ Len(getTasksGrouped(DP)) = 1
    /\ getTasksGrouped(DP)[1].name = NoTaskName
    /\ getTasksGrouped(DP)[1].totalHours = 2


(***************************************************************************)
(* The requirements on their own: a requirements dataset is loaded, then   *)
(* filterRequirements is called.                                           *)
(***************************************************************************)
MaxReqEdgeRows == 2

\* A requirement named alike by id and name.
ReqOf(id, budget, actual, status) == AtlasRow(Str(id), Str(id), budget, actual, status)

\* Utilization exactly 100, exactly 90, 101 and 120 (with a status in the
\* file); budget and actual that are no numbers, status ' Done '; a negative
\* budget under a blank status; 120 under the status 'BACKLOG'; a name
\* without id at 95.
ReqEdgeRows ==
    {ReqBuild, ReqOps, ReqBlank,
     ReqOf(<<65>>, Num(100), Num(100), Undefined),
     ReqOf(<<66>>, Num(100), Num(90), Undefined),
     ReqOf(<<67>>, Num(100), Num(101), Undefined),
     ReqOf(<<68>>, Num(100), Num(120), Str(<<65,99,116,105,118,101>>)),
     ReqOf(<<69>>, Str(<<97,98,99>>), Str(<<110,47,97>>), Str(<<32,68,111,110,101,32>>)),
     ReqOf(<<70>>, Num(-100), Num(50), Str(<<32>>)),
     ReqOf(<<71>>, Num(50), Num(60), Str(<<66,65,67,75,76,79,71>>)),          \* 'BACKLOG'
     AtlasRow(Undefined, Str(<<77,105,115,99>>), Num(200), Num(190), Undefined)}

ReqEdgeLoads ==
    {[data |-> data, normalized |-> normalizeRequirements(data)] :
        data \in BoundedSeqs(ReqEdgeRows, MaxReqEdgeRows)}

\* The values of the status filter: 'all', 'overbudget', 'active', 'DONE',
\* 'warning', 'danger', ''.
StatusInputs ==
    {ALL, <<111,118,101,114,98,117,100,103,101,116>>, <<97,99,116,105,118,101>>,
     <<68,79,78,69>>, STATUS.WARNING, STATUS.DANGER, <<>>}

CallFilterRequirements(status) ==
    /\ call' = [op |-> "filterRequirements", status |-> status,
                result |-> filterRequirements(DP, status)]
    /\ UNCHANGED <<hoursData, requirementsData, processedHours, processedRequirements,
                   employeeSummary, taskMatrix, taskKPIs, teamsData, currentTeam>>

NextReq ==
    \/ \E load \in ReqEdgeLoads : call = NoCall /\ UpdateRequirements(load)
    \/ \E status \in StatusInputs : CallFilterRequirements(status)

SpecReq == Init /\ [][NextReq]_vars

(***************************************************************************)
(* Properties of the requirements (SpecReq)                                *)
(***************************************************************************)
\* Two strings are equal, letter case disregarded.
EqualFolded(a, b) == Len(a) = Len(b) /\ \A i \in DOMAIN a : FoldCase(a[i]) = FoldCase(b[i])

\* The utilization of a requirement exceeds n percent.
UtilizationAbove(req, n) == req.utilization.num > n * req.utilization.den

\* The positions of the requirements that filterRequirements(status) is to return.
Passing(reqs, status) ==
    IF status = ALL THEN DOMAIN reqs
    ELSE IF status = <<111,118,101,114,98,117,100,103,101,116>>
    THEN {i \in DOMAIN reqs : UtilizationAbove(reqs[i], CONFIG.BUDGET_OVERRUN_THRESHOLD)}
    ELSE {i \in DOMAIN reqs : EqualFolded(reqs[i].status, status)}

\* s is reqs restricted to the positions P, in the order of reqs.
IsRestriction(s, reqs, P) ==
    /\ Len(s) = Cardinality(P)
    /\ \A k \in DOMAIN s :
          \E i \in P : s[k] = reqs[i] /\ Cardinality({j \in P : j < i}) = k - 1

\* C19: filterRequirements('all') returns every processed requirement,
\* 'overbudget' exactly those whose utilization exceeds
\* BUDGET_OVERRUN_THRESHOLD whatever their status, and any other value exactly
\* those whose status equals the value, letter case disregarded; the result is
\* in the order of processedRequirements, which the call leaves as it was.
C19_FilterByStatus ==
    call.op = "filterRequirements" =>
        IsRestriction(call.result, processedRequirements,
                      Passing(processedRequirements, call.status))

\* C19 (frame): a call of filterRequirements changes no field of the processor.
C19_FilterKeepsRequirements ==
    [][call' # call => UNCHANGED <<processedRequirements, requirementsData>>]_vars

\* 'overbudget' was asked of a requirement at 120 percent whose status is
\* 'Active' and one at 90 percent: the first alone is returned.
C19_OverbudgetWithFileStatus ==
    /\ call.op = "filterRequirements"
    /\ call.status = <<111,118,101,114,98,117,100,103,101,116>>
    /\ Len(processedRequirements) = 2
    /\ Len(call.result) = 1
    /\ call.result[1].status = <<65,99,116,105,118,101>>
    /\ call.result[1] = processedRequirements[2]

\* The cell holds no number: it is missing or text without a digit.
NoNumber(cell) ==
    \/ cell.k \in {"null", "undef"}
    \/ cell.k = "str" /\ \A i \in DOMAIN cell.s : ~IsDigit(cell.s[i])

\* The status the file gives for a raw row, trimmed ('' when there is none).
FileStatus(row) ==
    trim(String(Or(findColumn(row, CONFIG.REQUIREMENTS_COLUMNS.STATUS), Str(<<>>))))

\* The bucket of a utilization: above 100 overrun, above 90 warning, else normal.
Bucket(req) ==
    IF UtilizationAbove(req, 100) THEN STATUS.DANGER
    ELSE IF UtilizationAbove(req, 90) THEN STATUS.WARNING
    ELSE STATUS.SUCCESS

\* What C20 states of a requirement apart from the value of its utilization:
\* cells without a number count as 0, the status is that of the file when
\* there is one and else the bucket of the utilization, and the requirement
\* has an id or a name.
RequirementWellFormed(req) ==
    /\ NoNumber(findColumn(req.raw, CONFIG.REQUIREMENTS_COLUMNS.BUDGET)) => req.budget = 0
    /\ NoNumber(findColumn(req.raw, CONFIG.REQUIREMENTS_COLUMNS.ACTUAL)) => req.actual = 0
    /\ req.utilization.den > 0
    /\ req.status = IF FileStatus(req.raw) # <<>> THEN FileStatus(req.raw) ELSE Bucket(req)
    /\ req.id # <<>> \/ req.name # <<>>

\* The raw rows that have an id or a name are the rows of the processed
\* requirements, in order.
RowsWithIdOrName(data) ==
    SelectSeq(data, LAMBDA row :
        \/ Truthy(findColumn(row, CONFIG.REQUIREMENTS_COLUMNS.ID))
        \/ Truthy(findColumn(row, CONFIG.REQUIREMENTS_COLUMNS.NAME)))

RowsKept ==
    /\ Len(processedRequirements) = Len(RowsWithIdOrName(requirementsData))
    /\ \A i \in DOMAIN processedRequirements :
          processedRequirements[i].raw = RowsWithIdOrName(requirementsData)[i]

\* C20, as stated: for every processed requirement utilization is
\* actual/budget*100, and 0 when the budget is 0; cells that fail to parse
\* count as 0; the status is the file's when non-empty and else the bucket of
\* the utilization (above 100 overrun, above 90 warning, else normal); rows
\* without id and name are dropped.
C20_UtilizationAndStatus ==
    /\ RowsKept
    /\ \A i \in DOMAIN processedRequirements :
          LET req == processedRequirements[i]
          IN /\ RequirementWellFormed(req)
             /\ req.budget # 0 =>
                    req.utilization.num * req.budget = req.actual * 100 * req.utilization.den
             /\ req.budget = 0 => req.utilization.num = 0

\* C20, amended: as above, with utilization actual/budget*100 for a positive
\* budget and 0 for a budget that is zero or negative.
C20_UtilizationOfPositiveBudget ==
    /\ RowsKept
    /\ \A i \in DOMAIN processedRequirements :
          LET req == processedRequirements[i]
          IN /\ RequirementWellFormed(req)
             /\ req.budget > 0 =>
                    req.utilization.num * req.budget = req.actual * 100 * req.utilization.den
             /\ req.budget <= 0 => req.utilization.num = 0

\* A requirement at exactly 100 percent without status in the file was loaded
\* before a row without id and name: one requirement, status warning.
C20_ExactlyHundredLoaded ==
    /\ Len(requirementsData) = 2
    /\ requirementsData[2] = ReqBlank
    /\ Len(processedRequirements) = 1
    /\ processedRequirements[1].budget = 100
    /\ processedRequirements[1].utilization = [num |-> 100, den |-> 1]
    /\ processedRequirements[1].status = STATUS.WARNING


(***************************************************************************)
(* updateData called again: every call of updateData records whether it    *)
(* repeats the call of updateData before it.                               *)
(***************************************************************************)
\* The DataProcessor object of the current state, with the datasets it holds.
This ==
    [hoursData |-> hoursData,
     requirementsData |-> requirementsData,
     processedHours |-> processedHours,
     processedRequirements |-> processedRequirements,
     employeeSummary |-> employeeSummary,
     taskMatrix |-> taskMatrix,
     taskKPIs |-> taskKPIs,
     teamFilter |-> TF]

\* The derived fields of the processor and the results of its accessors.
Observed(self) ==
    [processedHours |-> self.processedHours,
     employeeSummary |-> self.employeeSummary,
     taskMatrix |-> self.taskMatrix,
     taskKPIs |-> self.taskKPIs,
     processedRequirements |-> self.processedRequirements,
     getHours |-> getHours(self),
     getRequirements |-> getRequirements(self),
     getTaskMatrix |-> getTaskMatrix(self),
     getEmployeesArray |-> getEmployeesArray(self),
     getStats |-> getStats(self),
     getHoursTotals |-> getHoursTotals(self),
     getTasksGrouped |-> getTasksGrouped(self),
     overbudget |-> filterRequirements(self, <<111,118,101,114,98,117,100,103,101,116>>)]

\* The call repeats the last call of updateData: same type, and the dataset is
\* the one that call stored.
RepeatsLastCall(type, load) ==
    /\ call.op = "updateData"
    /\ call.type = type
    /\ load.data = (IF type = "hours" THEN hoursData ELSE requirementsData)

CallUpdateData(type, load) ==
    LET after == updateData(This, type, load)
    IN /\ hoursData' = after.hoursData
       /\ requirementsData' = after.requirementsData
       /\ processedHours' = after.processedHours
       /\ processedRequirements' = after.processedRequirements
       /\ employeeSummary' = after.employeeSummary
       /\ taskMatrix' = after.taskMatrix
       /\ taskKPIs' = after.taskKPIs
       /\ call' = [op |-> "updateData", type |-> type,
                   repeated |-> RepeatsLastCall(type, load)]
       /\ UNCHANGED <<teamsData, currentTeam>>

\* The hours datasets loaded one after the other: none, one or two records of
\* one employee (on one day, on two days in either order), records of other
\* employees and tasks, a record that is dropped, a record without employee id
\* and task, two employees of one name.
RerunHoursInputs ==
    {<<>>, <<RowDanaInvest>>, <<RowDanaInvest, RowDanaExpense>>, <<RowYossiOther>>,
     <<RowYossiOther, RowDanaInvest>>, <<RowGuestAbsence, RowYossiOther>>,
     <<RowRonExcluded>>, <<RowNumericTask>>,
     <<RowNameIsId, RowDanaInvest>>, <<RowDanaInvest, RowNameIsId>>,
     <<RowDanaInvest, RowDanaLater>>, <<RowDanaLater, RowDanaInvest>>,
     <<RowDanaInvest, RowDanaNamesake>>}

RerunHoursLoads ==
    {[data |-> data, derived |-> hoursPipeline(data)] : data \in RerunHoursInputs}

NextRerun ==
    \/ \E load \in RerunHoursLoads : CallUpdateData("hours", load)
    \/ \E load \in ReqLoads : CallUpdateData("requirements", load)
    \/ \E teamId \in MainTeamIds : TeamFilterInit(getDefaultTeamsStructure, teamId)
    \/ \E teamId \in MainTeamIds : setCurrentTeam(teamId)

SpecRerun == Init /\ [][NextRerun]_vars

C13_RequirementsLoadedTwice ==
    /\ call.op = "updateData"
    /\ call.repeated
    /\ call.type = "requirements"
    /\ Len(processedRequirements) = 1
    /\ processedRequirements[1].actualHours > 0


(***************************************************************************)
(* extractRequirement on its own: the function is applied to one task      *)
(* value.                                                                  *)
(***************************************************************************)
MaxTaskDigits == 7

\* The first n digits of '123456789'.
DigitsOf(n) == [i \in 1..n |-> 48 + i]

\* Task texts: '' or ' ' or 'x' in front, up to MaxTaskDigits digits, then
\* nothing, ' ', two spaces or a tab, then '', '-', '- Build', 'Build' or '-5'.
TaskTexts ==
    {Concat(<<front, DigitsOf(n), gap, rest>>) :
        front \in {<<>>, <<32>>, <<120>>},
        n \in 0..MaxTaskDigits,
        gap \in {<<>>, <<32>>, <<32,32>>, <<9>>},
        rest \in {<<>>, <<45>>, <<45,32,66,117,105,108,100>>, <<66,117,105,108,100>>, <<45,53>>}}

\* The values extractRequirement receives: text, numbers, null, undefined.
TaskInputs ==
    {Str(s) : s \in TaskTexts} \cup {Num(0), Num(2024), Num(123456), Num(-12345), Null, Undefined}

InitExtract ==
    /\ NoData
    /\ call \in {[op |-> "extractRequirement", task |-> v, done |-> FALSE,
                  result |-> <<>>] : v \in TaskInputs}

CallExtractRequirement ==
    /\ ~call.done
    /\ call' = [call EXCEPT !.done = TRUE, !.result = extractRequirement(call.task)]
    /\ UnchangedData
    /\ UNCHANGED <<teamsData, currentTeam>>

NextExtract == CallExtractRequirement

SpecExtract == InitExtract /\ [][NextExtract]_vars

(***************************************************************************)
(* Properties of extractRequirement (SpecExtract)                          *)
(***************************************************************************)
\* The text a task value stands for ('' for a value that is empty or missing).
TaskText(v) ==
    CASE v.k = "str" -> v.s
      [] v.k = "num" /\ v.n # 0 -> String(v)
      [] OTHER -> <<>>

\* s starts with exactly d digits, and a hyphen follows them after white
\* space only.
StartsWithId(s, d) ==
    /\ d <= Len(s)
    /\ \A i \in 1..d : s[i] \in 48..57
    /\ d < Len(s) /\ s[d + 1] \notin 48..57
    /\ \E h \in (d + 1)..Len(s) :
          /\ s[h] = 45
          /\ \A i \in (d + 1)..(h - 1) : s[i] \in {9, 32}

\* C21: extractRequirement(task) returns the leading digits of the task text
\* when it starts with 4 to 6 digits followed, after optional white space, by
\* a hyphen, and the empty string in every other case.
C21_LeadingIdOrEmpty ==
    (call.op = "extractRequirement" /\ call.done) =>
        LET s == TaskText(call.task)
        IN IF \E d \in 4..6 : StartsWithId(s, d)
           THEN \E d \in 4..6 : StartsWithId(s, d) /\ call.result = SubSeq(s, 1, d)
           ELSE call.result = <<>>

\* '123456  - Build' gave '123456'.
C21_IdBeforeSpacedHyphen ==
    /\ call.op = "extractRequirement"
    /\ call.done
    /\ call.task = Str(<<49,50,51,52,53,54,32,32,45,32,66,117,105,108,100>>)
    /\ call.result = <<49,50,51,52,53,54>>

\* Seven digits before the hyphen gave ''.
C21_SevenDigitsRejected ==
    /\ call.op = "extractRequirement"
    /\ call.done
    /\ call.task = Str(<<49,50,51,52,53,54,55,45>>)
    /\ call.result = <<>>


(***************************************************************************)
(* Properties of the derived hours structures across loads (SpecRerun)     *)
(***************************************************************************)
\* Every processed record, summary and matrix entry stems from a row of the
\* hours dataset held now.
FromHeldDataset ==
    /\ \A i \in DOMAIN processedHours :
          \E j \in DOMAIN hoursData : processedHours[i].raw = hoursData[j]
    /\ \A i \in DOMAIN employeeSummary :
          /\ RecordsOfKey(processedHours, employeeSummary[i].key) # {}
          /\ \A k \in DOMAIN employeeSummary[i].val.tasks :
                \E j \in RecordsOfKey(processedHours, employeeSummary[i].key) :
                    processedHours[j].task = employeeSummary[i].val.tasks[k]
    /\ \A i \in DOMAIN taskMatrix.value :
          /\ taskMatrix.value[i].name \in TasksOf(processedHours)
          /\ \A k \in DOMAIN taskMatrix.value[i].employees :
                \E j \in MatrixRecordsOf(processedHours, taskMatrix.value[i].name) :
                    processedHours[j].employee = taskMatrix.value[i].employees[k]
    /\ taskKPIs.value.total = Cardinality(TasksOf(processedHours))

\* C22: after any sequence of updateData calls processedHours,
\* employeeSummary, taskMatrix and taskKPIs are those computed from the hours
\* dataset loaded last alone: no employee, task, hour or set member stems from
\* an earlier dataset, and with an empty dataset they are all empty.
C22_DerivedFromLastLoad ==
    /\ [processedHours |-> processedHours,
        employeeSummary |-> employeeSummary,
        taskMatrix |-> taskMatrix.value,
        taskKPIs |-> taskKPIs.value] = hoursPipeline(hoursData)
    /\ FromHeldDataset
    /\ hoursData = <<>> =>
          /\ processedHours = <<>> /\ employeeSummary = <<>> /\ taskMatrix.value = <<>>
          /\ taskKPIs.value = [total |-> 0, overloaded |-> 0, investment |-> 0, expense |-> 0]

\* The empty hours dataset was loaded after hours that the linked requirement
\* still counts: nothing of them is left in the hours structures.
C22_EmptyLoadedAfterHours ==
    /\ call.op = "updateData"
    /\ call.type = "hours"
    /\ hoursData = <<>>
    /\ taskMatrix.defined
    /\ Len(processedRequirements) = 1
    /\ processedRequirements[1].actualHours > 0
    /\ employeeSummary = <<>>


(***************************************************************************)
(* processHours on its own: the function is applied to one hours dataset   *)
(* whose rows differ in the hours cell.                                    *)
(***************************************************************************)
MaxCoerceRows == 2

\* Hours cells: 5, 0, -2, '5', '1,234', ' 7 ', 'abc', 'h5', '-3', '12 h', '',
\* undefined, null.
HoursCells ==
    {Num(5), Num(0), Num(-2), Str(<<53>>), Str(<<49,44,50,51,52>>), Str(<<32,55,32>>),
     Str(<<97,98,99>>), Str(<<104,53>>), Str(<<45,51>>), Str(<<49,50,32,104>>), Str(<<>>),
     Undefined, Null}

CoerceInputs ==
    BoundedSeqs({DanaWith(Dana, Str(<<51,57,53,54,48,50>>), cell) : cell \in HoursCells},
                MaxCoerceRows)

InitCoerce ==
    /\ NoData
    /\ call \in {[op |-> "processHours", data |-> data, done |-> FALSE,
                  result |-> <<>>] : data \in CoerceInputs}

CallProcessHours ==
    /\ ~call.done
    /\ call' = [call EXCEPT !.done = TRUE, !.result = processHours(call.data)]
    /\ UnchangedData
    /\ UNCHANGED <<teamsData, currentTeam>>

NextCoerce == CallProcessHours

SpecCoerce == InitCoerce /\ [][NextCoerce]_vars

(***************************************************************************)
(* Properties of the hours value (SpecCoerce)                              *)
(***************************************************************************)
\* The result of the type coercer for a cell, a failure taken as 0.
Coerced(cell) == Or(parseNumber(cell), Num(0)).n

\* The records are the rows whose hours, as Hours(_) gives them, are
\* positive, in order, each with those hours.
HoursAre(records, data, Hours(_)) ==
    LET kept == SelectSeq(data, LAMBDA row : Hours(HoursCell(row)) > 0)
    IN /\ Len(records) = Len(kept)
       /\ \A i \in DOMAIN records :
             records[i].raw = kept[i] /\ records[i].hours = Hours(HoursCell(kept[i]))

\* C23: the hours of every normalized hours record are the type coercer's
\* result for the raw hours cell (a number as it is, text parsed after every
\* character but digits, '.' and '-' is stripped, so that '1,234' gives 1234);
\* a cell that fails to parse counts as 0 and its row is dropped.
C23_HoursByTypeCoercer ==
    (call.op = "processHours" /\ call.done) => HoursAre(call.result, call.data, Coerced)

\* C23 (numbers and plain text): for cells that are numbers or text of digits
\* with an optional sign the hours are the type coercer's result.
C23_PlainCellsCoerced ==
    (call.op = "processHours" /\ call.done) =>
        \A i \in DOMAIN call.result :
            LET cell == HoursCell(call.result[i].raw)
            IN (cell.k = "num" \/ (cell.k = "str" /\ stripNonNumeric(cell.s) = cell.s))
                  => call.result[i].hours = Coerced(cell)

\* A row with the hours cell '1,234' was processed: one record.
C23_ThousandsSeparatorProcessed ==
    /\ call.op = "processHours"
    /\ call.done
    /\ Len(call.data) = 1
    /\ HoursCell(call.data[1]) = Str(<<49,44,50,51,52>>)
    /\ Len(call.result) = 1
    /\ call.result[1].hours = 1


(***************************************************************************)
(* Properties relating the task matrix and the grouped task list (Spec)    *)
(***************************************************************************)
\* No team narrows the views: no structure is loaded or the team is 'all'.
NoTeamFilter == teamsData = Null \/ currentTeam = ALL

\* C24: with no team filter active, for every task of the task matrix the
\* grouped task list holds a task of the same name with equal totalHours, as
\* many employees as the matrix counts, and the same work type; and the
\* grouped list holds no task that the fold of the matrix does not hold.
C24_TaskShapesAgree ==
    NoTeamFilter =>
        LET matrix == getTaskMatrix(DP)
            grouped == getTasksGrouped(DP)
        IN /\ \A i \in DOMAIN matrix :
                 \E j \in DOMAIN grouped :
                     /\ String(grouped[j].name) = matrix[i].name
                     /\ grouped[j].totalHours = matrix[i].totalHours
                     /\ Len(grouped[j].employees) = matrix[i].employeeCount
                     /\ grouped[j].type = matrix[i].type
           /\ \A j \in DOMAIN grouped : String(grouped[j].name) \in TasksOf(processedHours)

\* C24 (hours): with no team filter active, every task of the task matrix is
\* in the grouped list under the same name with equal totalHours.
C24_TaskHoursAgree ==
    NoTeamFilter =>
        \A i \in DOMAIN getTaskMatrix(DP) :
            \E j \in DOMAIN getTasksGrouped(DP) :
                /\ String(getTasksGrouped(DP)[j].name) = getTaskMatrix(DP)[i].name
                /\ getTasksGrouped(DP)[j].totalHours = getTaskMatrix(DP)[i].totalHours

\* Two records of one task carry one employee id under two employee names:
\* the matrix counts two employees, the grouped list holds one.
C24_TwoNamesOneId ==
    /\ NoTeamFilter
    /\ Len(processedHours) = 2
    /\ processedHours[1].employeeId = processedHours[2].employeeId
    /\ processedHours[1].employee # processedHours[2].employee
    /\ Len(getTaskMatrix(DP)) = 1
    /\ getTaskMatrix(DP)[1].employeeCount = 2
    /\ Len(getTasksGrouped(DP)) = 1
    /\ Len(getTasksGrouped(DP)[1].employees) = 1


(***************************************************************************)
(* FileHandler: files are selected one after the other; each selection     *)
(* starts an asynchronous read (handleFile up to its await), and when a    *)
(* read is done the rest of handleFile stores the dataset, saves it and    *)
(* hands it to the DataProcessor.  Here call holds the FileHandler: the    *)
(* files selected so far, the reads in flight, the stored datasets and the *)
(* localStorage copy.                                                      *)
(***************************************************************************)
MaxSelections == 3

\* The files a user selects: two hours files and two requirements files.
HoursFiles == {load \in RerunHoursLoads : load.data \in {<<RowDanaInvest>>, <<RowYossiOther>>}}
ReqFiles == {load \in ReqLoads : load.data \in {<<ReqBuild>>, <<ReqOps>>}}

FilesOfType(type) == IF type = "hours" THEN HoursFiles ELSE ReqFiles

\* new FileHandler(), an empty localStorage, no file selected.
InitFiles ==
    /\ NoData
    /\ call = [op |-> "files", selected |-> <<>>, reading |-> {},
               fileHandler |-> [hoursData |-> <<>>, requirementsData |-> <<>>],
               storage |-> [dashboardHours |-> Null, dashboardRequirements |-> Null]]

\* saveToStorage(): a dataset is written when it has rows.
saveToStorage(fileHandler, storage) ==
    [dashboardHours |->
        IF Len(fileHandler.hoursData) > 0 THEN fileHandler.hoursData ELSE storage.dashboardHours,
     dashboardRequirements |->
        IF Len(fileHandler.requirementsData) > 0 THEN fileHandler.requirementsData
        ELSE storage.dashboardRequirements]

\* handleFile(file, type) up to await this.readExcel(file, type): the read of
\* the file is started.
SelectFile(type, load) ==
    /\ Len(call.selected) < MaxSelections
    /\ call' = [call EXCEPT !.selected = Append(@, [type |-> type, load |-> load]),
                            !.reading = @ \cup {Len(call.selected) + 1}]
    /\ UnchangedData
    /\ UNCHANGED <<teamsData, currentTeam>>

\* reader.onload of the i-th selection, and handleFile from its await on: the
\* dataset is stored, saved, and handed to onDataLoaded, which calls updateData.
ReadDone(i) ==
    LET file == call.selected[i]
        stored == IF file.type = "hours"
                  THEN [call.fileHandler EXCEPT !.hoursData = file.load.data]
                  ELSE [call.fileHandler EXCEPT !.requirementsData = file.load.data]
        after == updateData(This, file.type, file.load)
    IN /\ i \in call.reading
       /\ call' = [call EXCEPT !.reading = @ \ {i},
                               !.fileHandler = stored,
                               !.storage = saveToStorage(stored, call.storage)]
       /\ hoursData' = after.hoursData
       /\ requirementsData' = after.requirementsData
       /\ processedHours' = after.processedHours
       /\ processedRequirements' = after.processedRequirements
       /\ employeeSummary' = after.employeeSummary
       /\ taskMatrix' = after.taskMatrix
       /\ taskKPIs' = after.taskKPIs
       /\ UNCHANGED <<teamsData, currentTeam>>

NextFiles ==
    \/ \E type \in {"hours", "requirements"} : \E load \in FilesOfType(type) :
          SelectFile(type, load)
    \/ \E i \in 1..MaxSelections : ReadDone(i)

SpecFiles == InitFiles /\ [][NextFiles]_vars

(***************************************************************************)
(* Properties of the order of loads (SpecFiles)                            *)
(***************************************************************************)
\* The selections of a type, by position.
SelectionsOf(type) == {i \in DOMAIN call.selected : call.selected[i].type = type}

\* The FileHandler's dataset, the localStorage copy and the DataProcessor's
\* views of a type are those of the file load.
AllHold(type, load) ==
    IF type = "hours"
    THEN /\ call.fileHandler.hoursData = load.data
         /\ call.storage.dashboardHours = load.data
         /\ hoursData = load.data
         /\ processedHours = load.derived.processedHours
         /\ employeeSummary = load.derived.employeeSummary
         /\ getTaskMatrix(DP) = load.derived.taskMatrix
    ELSE /\ call.fileHandler.requirementsData = load.data
         /\ call.storage.dashboardRequirements = load.data
         /\ requirementsData = load.data
         /\ Len(processedRequirements) = Len(load.normalized)
         /\ \A i \in DOMAIN processedRequirements :
               processedRequirements[i].raw = load.normalized[i].raw

\* C25: once the reads of all selected files have finished, for every type of
\* which two or more files were selected the FileHandler's dataset, the
\* localStorage copy and the DataProcessor's views are those of the file
\* selected last, whichever read finished first.
C25_LaterFileWins ==
    (call.op = "files" /\ call.reading = {}) =>
        \A type \in {"hours", "requirements"} :
            Cardinality(SelectionsOf(type)) >= 2 =>
                AllHold(type, call.selected[Max(SelectionsOf(type))].load)

\* C25 (one file): when one file of a type was selected and its read has
\* finished, everything of that type is of that file.
C25_SingleFileStored ==
    (call.op = "files" /\ call.reading = {}) =>
        \A type \in {"hours", "requirements"} :
            Cardinality(SelectionsOf(type)) = 1 =>
                AllHold(type, call.selected[Max(SelectionsOf(type))].load)

\* Two different hours files were selected, both reads have finished, and
\* everything is of the file selected first.
C25_EarlierFileStored ==
    /\ call.op = "files"
    /\ call.reading = {}
    /\ Len(call.selected) = 2
    /\ call.selected[1].type = "hours"
    /\ call.selected[2].type = "hours"
    /\ call.selected[1].load # call.selected[2].load
    /\ AllHold("hours", call.selected[1].load)


(***************************************************************************)
(* Properties relating the employee view and the hours view (SpecRerun)    *)
(***************************************************************************)
\* The sum of totalHours over getEmployeesArray(), and of hours over getHours().
EmployeeViewHours == SumSeq(getEmployeesArray(DP), LAMBDA emp : emp.totalHours)
HoursViewHours == SumSeq(getHours(DP), LAMBDA row : row.hours)

\* C26: for every team selection the sum of totalHours over
\* getEmployeesArray() equals getStats().totalHours and
\* getHoursTotals().totalHours, the sum of hours over getHours(), also with
\* rows without employee id and with an employee whose name is another
\* employee's id.
C26_ViewsAgree ==
    /\ EmployeeViewHours = getStats(DP).totalHours
    /\ getStats(DP).totalHours = getHoursTotals(DP).totalHours
    /\ getHoursTotals(DP).totalHours = HoursViewHours

\* C26 (hours view): getStats().totalHours and getHoursTotals().totalHours are
\* the sum of hours over getHours(), and with no team filter active the
\* employee view sums to the same.
C26_HoursViewsAgree ==
    /\ getStats(DP).totalHours = HoursViewHours
    /\ getHoursTotals(DP).totalHours = HoursViewHours
    /\ NoTeamFilter => EmployeeViewHours = HoursViewHours

\* Under a selected team, a record without employee id whose employee name is
\* the id of the next record's employee was loaded before that record.
C26_NameOfOneIsIdOfOther ==
    /\ teamsData # Null
    /\ currentTeam # ALL
    /\ Len(processedHours) = 2
    /\ processedHours[1].employeeId = <<>>
    /\ processedHours[1].employee = Str(processedHours[2].employeeId)
    /\ Len(employeeSummary) = 1
    /\ HoursViewHours = 5
    /\ EmployeeViewHours = 0


(***************************************************************************)
(* getTasksGrouped with binary64 hours: the function is applied to one     *)
(* list of hours records, each a task, an employee id and the hours.       *)
(***************************************************************************)
MaxGroupRows == 3

\* x < y for binary64 values held as [k, d].
Less64(x, y) == x.k < y.k \/ (x.k = y.k /\ x.d < y.d)

\* getTasksGrouped64 with the employees of a task left in the order of their
\* first records.
getTasksGrouped64Unsorted(hours) ==
    LET zero == [k |-> 0, d |-> 0]
        addEmployee(employees, record) ==
            LET hits == {j \in 1..Len(employees) : employees[j].id = record.employeeId}
            IN IF hits = {}
               THEN Append(employees, [id |-> record.employeeId, hours |-> record.hours])
               ELSE LET j == CHOOSE j \in hits : TRUE
                    IN [employees EXCEPT ![j].hours = add64(@, record.hours)]
        step(map, record) ==
            LET hits == {j \in 1..Len(map) : map[j].name = record.task}
            IN IF hits = {}
               THEN Append(map, [name |-> record.task, totalHours |-> record.hours,
                                 employees |-> addEmployee(<<>>, record)])
               ELSE LET j == CHOOSE j \in hits : TRUE
                    IN [map EXCEPT ![j].totalHours = add64(@, record.hours),
                                   ![j].employees = addEmployee(@, record)]
        tasksMap[i \in 0..Len(hours)] ==
            IF i = 0 THEN <<>> ELSE step(tasksMap[i - 1], hours[i])
    IN StableSort(tasksMap[Len(hours)], LAMBDA a, b : Less64(b.totalHours, a.totalHours))

\* getTasksGrouped(), the hours added with binary64 '+='.
getTasksGrouped64(hours) ==
    LET zero == [k |-> 0, d |-> 0]
        fresh(record) == [name |-> record.task, totalHours |-> zero, employees |-> <<>>]
        addEmployee(employees, record) ==
            LET hits == {j \in 1..Len(employees) : employees[j].id = record.employeeId}
            IN IF hits = {}
               THEN Append(employees, [id |-> record.employeeId,
                                       hours |-> add64(zero, record.hours)])
               ELSE LET j == CHOOSE j \in hits : \A h \in hits : j <= h
                    IN [employees EXCEPT ![j].hours = add64(@, record.hours)]
        add(task, record) ==
            [task EXCEPT !.totalHours = add64(@, record.hours),
                         !.employees = addEmployee(@, record)]
        step(map, record) ==
            LET hits == {j \in 1..Len(map) : map[j].name = record.task}
            IN IF hits = {} THEN Append(map, add(fresh(record), record))
               ELSE LET j == CHOOSE j \in hits : TRUE
                    IN [map EXCEPT ![j] = add(@, record)]
        tasksMap[i \in 0..Len(hours)] ==
            IF i = 0 THEN <<>> ELSE step(tasksMap[i - 1], hours[i])
        tasksArray ==
            [i \in 1..Len(tasksMap[Len(hours)]) |->
                [tasksMap[Len(hours)][i] EXCEPT
                    !.employees = StableSort(@, LAMBDA a, b : Less64(b.hours, a.hours))]]
    IN StableSort(tasksArray, LAMBDA a, b : Less64(b.totalHours, a.totalHours))

\* Records of two employees on task 'A' with 0.1, 0.2 or 0.3 hours, and of one
\* employee on task 'B' with 0.3 hours or 1 hour.
GroupRecords ==
    {[task |-> <<65>>, employeeId |-> id, hours |-> decimal64(tenths)] :
        id \in {<<49>>, <<50>>}, tenths \in {1, 2, 3}}
    \cup {[task |-> <<66>>, employeeId |-> <<49>>, hours |-> decimal64(tenths)] :
            tenths \in {3, 10}}

GroupInputs == BoundedSeqs(GroupRecords, MaxGroupRows)

InitGroup ==
    /\ NoData
    /\ call \in {[op |-> "getTasksGrouped", hours |-> hours, done |-> FALSE,
                  result |-> <<>>] : hours \in GroupInputs}

CallGetTasksGrouped ==
    /\ ~call.done
    /\ call' = [call EXCEPT !.done = TRUE, !.result = getTasksGrouped64(call.hours)]
    /\ UnchangedData
    /\ UNCHANGED <<teamsData, currentTeam>>

NextGroup == CallGetTasksGrouped

SpecGroup == InitGroup /\ [][NextGroup]_vars

(***************************************************************************)
(* Properties of the grouped task list (SpecGroup, Spec)                   *)
(***************************************************************************)
\* The binary64 sum of F over a sequence, added in order from 0.
Sum64(s, F(_)) ==
    LET f[i \in 0..Len(s)] == IF i = 0 THEN [k |-> 0, d |-> 0] ELSE add64(f[i - 1], F(s[i]))
    IN f[Len(s)]

\* The tasks and the employees of every task are in non-increasing order of
\* hours, and every employee id of a task's records is in exactly one entry.
GroupedInOrder(grouped, hours) ==
    /\ \A i \in 1..(Len(grouped) - 1) : ~Less64(grouped[i].totalHours, grouped[i + 1].totalHours)
    /\ \A i \in DOMAIN grouped :
          LET emps == grouped[i].employees
          IN /\ \A j \in 1..(Len(emps) - 1) : ~Less64(emps[j].hours, emps[j + 1].hours)
             /\ \A j, l \in DOMAIN emps : j # l => emps[j].id # emps[l].id
             /\ {emps[j].id : j \in DOMAIN emps}
                   = {hours[r].employeeId : r \in {q \in DOMAIN hours : hours[q].task = grouped[i].name}}

\* C27, as stated: in getTasksGrouped() the hours of the employees entries of
\* every task sum to the task's totalHours, every employee id is in exactly
\* one entry, the totalHours of all tasks sum to the hours of all records,
\* tasks are in non-increasing order of totalHours and employees in
\* non-increasing order of hours.
C27_GroupedSumsExact ==
    (call.op = "getTasksGrouped" /\ call.done) =>
        /\ GroupedInOrder(call.result, call.hours)
        /\ \A i \in DOMAIN call.result :
              Sum64(call.result[i].employees, LAMBDA e : e.hours) = call.result[i].totalHours
        /\ Sum64(call.result, LAMBDA t : t.totalHours) = Sum64(call.hours, LAMBDA r : r.hours)

\* Every record holds a whole number of hours.
WholeHours(hours) == \A r \in DOMAIN hours : hours[r].hours.d = 0 /\ hours[r].hours.k % 10 = 0

\* C27, amended: the order and the entries are as stated; the sums agree up
\* to the rounding of binary64 addition (they are the same number of tenths),
\* and exactly when all hours are whole numbers.
C27_GroupedSumsRounded ==
    (call.op = "getTasksGrouped" /\ call.done) =>
        /\ GroupedInOrder(call.result, call.hours)
        /\ \A i \in DOMAIN call.result :
              LET sum == Sum64(call.result[i].employees, LAMBDA e : e.hours)
              IN /\ sum.k = call.result[i].totalHours.k
                 /\ WholeHours(call.hours) => sum = call.result[i].totalHours
        /\ LET tasks == Sum64(call.result, LAMBDA t : t.totalHours)
               records == Sum64(call.hours, LAMBDA r : r.hours)
           IN /\ tasks.k = records.k
              /\ WholeHours(call.hours) => tasks = records

\* Three records of one task were grouped: 0.1 hours of one employee, then
\* 0.2 and 0.3 hours of another, who comes first in the result.
C27_FractionalHoursGrouped ==
    /\ call.op = "getTasksGrouped"
    /\ call.done
    /\ Len(call.hours) = 3
    /\ call.hours[1].hours = decimal64(1)
    /\ call.hours[2].hours = decimal64(2)
    /\ call.hours[3].hours = decimal64(3)
    /\ Len(call.result) = 1
    /\ Len(call.result[1].employees) = 2
    /\ call.result[1].employees[1].id = call.hours[3].employeeId
    /\ call.result[1].employees[1].hours = decimal64(5)

\* C27 (whole hours): on the records of the loaded datasets, under every team
\* selection, the hours of the entries of every task of getTasksGrouped() sum
\* to its totalHours, the totalHours sum to the hours of getHours(), and tasks
\* and employees are in non-increasing order of hours.
C27_WholeHoursGrouped ==
    LET grouped == getTasksGrouped(DP)
    IN /\ \A i \in DOMAIN grouped :
             /\ SumSeq(grouped[i].employees, LAMBDA e : e.hours) = grouped[i].totalHours
             /\ \A j \in 1..(Len(grouped[i].employees) - 1) :
                   grouped[i].employees[j].hours >= grouped[i].employees[j + 1].hours
             /\ \A j, l \in DOMAIN grouped[i].employees :
                   j # l => grouped[i].employees[j].id # grouped[i].employees[l].id
       /\ \A i \in 1..(Len(grouped) - 1) : grouped[i].totalHours >= grouped[i + 1].totalHours
       /\ SumSeq(grouped, LAMBDA t : t.totalHours) = SumSeq(getHours(DP), LAMBDA r : r.hours)


(***************************************************************************)
(* Properties of the filter counts (SpecReq)                               *)
(***************************************************************************)
\* C28: in every reachable state the counts all, active, backlog, done and
\* overbudget of getRequirementsFilterCounts() are the lengths of
\* filterRequirements('all'), ('active'), ('backlog'), ('done') and
\* ('overbudget'), and the count overbudget is getStats().overBudget.
C28_CountsMatchFilters ==
    LET counts == getRequirementsFilterCounts(DP)
    IN /\ counts.all = Len(filterRequirements(DP, ALL))
       /\ counts.active = Len(filterRequirements(DP, <<97,99,116,105,118,101>>))
       /\ counts.backlog = Len(filterRequirements(DP, <<98,97,99,107,108,111,103>>))
       /\ counts.done = Len(filterRequirements(DP, <<100,111,110,101>>))
       /\ counts.overbudget
             = Len(filterRequirements(DP, <<111,118,101,114,98,117,100,103,101,116>>))
       /\ counts.overbudget = getStats(DP).overBudget

\* Two requirements over budget are loaded, one with the status 'Active' and
\* one with the status 'BACKLOG'.
C28_ActiveAndBacklogLoaded ==
    /\ Len(processedRequirements) = 2
    /\ processedRequirements[1].status = <<65,99,116,105,118,101>>
    /\ processedRequirements[2].status = <<66,65,67,75,76,79,71>>
    /\ getRequirementsFilterCounts(DP)
          = [all |-> 2, active |-> 1, backlog |-> 1, done |-> 0, overbudget |-> 2]


(***************************************************************************)
(* DataProcessor: details of one employee                                  *)
(***************************************************************************)
\* a < b on strings: the order of their UTF-16 code units.
StringLess(a, b) ==
    \E i \in 1..Len(b) :
        /\ \A j \in 1..(i - 1) : j <= Len(a) /\ a[j] = b[j]
        /\ i > Len(a) \/ a[i] < b[i]

\* getEmployeeDetails(employeeIdOrName); found is FALSE where the code returns
\* null.  firstDate and lastDate are a string value or Null.
getEmployeeDetails(self, employeeIdOrName) ==
    LET values == ObjectValues(self.employeeSummary)
        own == Lookup(self.employeeSummary, String(employeeIdOrName))
        \* emp.name === employeeIdOrName || emp.id === employeeIdOrName
        hits == {i \in 1..Len(values) :
                    \/ values[i].name = employeeIdOrName
                    \/ employeeIdOrName.k = "str" /\ values[i].id = employeeIdOrName.s}
        employee == IF own # 0 THEN self.employeeSummary[own].val ELSE values[Min(hits)]
        employeeHours ==
            SelectSeq(self.processedHours, LAMBDA h :
                \/ h.employeeId # <<>> /\ h.employeeId = employee.id
                \/ h.employee = employee.name)
        add(task, h) ==
            [task EXCEPT
                !.totalHours = @ + h.hours,
                !.dates = IF h.date # <<>> THEN SetAdd(@, h.date) ELSE @,
                !.requirements = IF h.requirement # <<>> THEN SetAdd(@, h.requirement) ELSE @]
        step(obj, h) ==
            LET key == String(h.task)
                at == Lookup(obj, key)
            IN IF at = 0
               THEN Append(obj, [key |-> key,
                                 val |-> add([name |-> h.task, totalHours |-> 0,
                                              dates |-> <<>>, requirements |-> <<>>], h)])
               ELSE [obj EXCEPT ![at].val = add(@, h)]
        tasks[i \in 0..Len(employeeHours)] ==
            IF i = 0 THEN <<>> ELSE step(tasks[i - 1], employeeHours[i])
        taskValues == ObjectValues(tasks[Len(employeeHours)])
        tasksArray ==
            [i \in 1..Len(taskValues) |->
                [name |-> taskValues[i].name,
                 totalHours |-> taskValues[i].totalHours,
                 dayCount |-> Len(taskValues[i].dates),
                 requirementCount |-> Len(taskValues[i].requirements),
                 requirements |-> taskValues[i].requirements]]
        \* (min, h) => !min || h.date < min ? h.date : min
        first[i \in 0..Len(employeeHours)] ==
            IF i = 0 THEN Null
            ELSE IF ~Truthy(first[i - 1]) \/ StringLess(employeeHours[i].date, first[i - 1].s)
                 THEN Str(employeeHours[i].date)
                 ELSE first[i - 1]
        \* (max, h) => !max || h.date > max ? h.date : null
        last[i \in 0..Len(employeeHours)] ==
            IF i = 0 THEN Null
            ELSE IF ~Truthy(last[i - 1]) \/ StringLess(last[i - 1].s, employeeHours[i].date)
                 THEN Str(employeeHours[i].date)
                 ELSE Null
    IN IF own = 0 /\ hits = {}
       THEN [found |-> FALSE]
       ELSE [found |-> TRUE,
             employee |-> employee,
             tasks |-> StableSort(tasksArray, LAMBDA a, b : b.totalHours - a.totalHours < 0),
             totalRecords |-> Len(employeeHours),
             firstDate |-> first[Len(employeeHours)],
             lastDate |-> last[Len(employeeHours)]]

(***************************************************************************)
(* Properties of the employee details (SpecRerun)                          *)
(***************************************************************************)
\* The records that buildEmployeeSummary folded into the summary under key.
RecordsFolded(key) == SelectSeq(processedHours, LAMBDA h : summaryKey(h) = key)

\* The dates of a sequence of records.
DatesOf(records) == {records[i].date : i \in 1..Len(records)}

LeastDate(records) ==
    CHOOSE d \in DatesOf(records) : \A e \in DatesOf(records) : ~StringLess(e, d)

GreatestDate(records) ==
    CHOOSE d \in DatesOf(records) : \A e \in DatesOf(records) : ~StringLess(d, e)

\* C29: for every employee of the summary, getEmployeeDetails returns
\* firstDate equal to the least and lastDate equal to the greatest date string
\* among the employee's records, in whatever order the records appear in the
\* dataset; neither is null.
C29_FirstAndLastDate ==
    \A i \in 1..Len(employeeSummary) :
        LET key == employeeSummary[i].key
            details == getEmployeeDetails(This, Str(key))
            records == RecordsFolded(key)
        IN /\ details.found
           /\ details.firstDate = Str(LeastDate(records))
           /\ details.lastDate = Str(GreatestDate(records))

\* Where the details cover the employee's records and no others: the
\* firstDate half alone, and lastDate where the records appear in strictly
\* ascending order of date.
C29_FirstDateLeast ==
    \A i \in 1..Len(employeeSummary) :
        LET key == employeeSummary[i].key
            details == getEmployeeDetails(This, Str(key))
            records == RecordsFolded(key)
        IN /\ details.found
           /\ details.totalRecords = Len(records)
              => /\ details.firstDate = Str(LeastDate(records))
                 /\ (\A j \in 1..(Len(records) - 1) :
                         StringLess(records[j].date, records[j + 1].date))
                    => details.lastDate = Str(GreatestDate(records))

\* Dana's record of 16.3.2023 was loaded before their record of 15.3.2023;
\* the details give the first date and no last date.
C29_LaterRecordFirst ==
    /\ Len(processedHours) = 2
    /\ processedHours[1].date = <<49,54,46,51,46,50,48,50,51>>
    /\ processedHours[2].date = <<49,53,46,51,46,50,48,50,51>>
    /\ Len(employeeSummary) = 1
    /\ LET details == getEmployeeDetails(This, Str(employeeSummary[1].key))
       IN /\ details.totalRecords = 2
          /\ details.firstDate = Str(<<49,53,46,51,46,50,48,50,51>>)
          /\ details.lastDate = Null


\* C30: getEmployeeDetails(key) attributes to an employee exactly the records
\* that were folded into the employee's summary: totalRecords counts those
\* records and the totalHours of the returned tasks add up to the summary's
\* totalHours, also when two employees with different ids share one name.
C30_DetailsMatchSummary ==
    \A i \in 1..Len(employeeSummary) :
        LET key == employeeSummary[i].key
            details == getEmployeeDetails(This, Str(key))
        IN /\ details.found
           /\ details.employee = employeeSummary[i].val
           /\ details.totalRecords = Len(RecordsFolded(key))
           /\ SumSeq(details.tasks, LAMBDA task : task.totalHours)
                  = employeeSummary[i].val.totalHours

\* The name of every summary belongs to that summary alone, and every record
\* carries the id of its summary.
NamesAndIdsApart ==
    /\ \A i, j \in 1..Len(employeeSummary) :
           employeeSummary[i].val.name = employeeSummary[j].val.name => i = j
    /\ \A i \in 1..Len(employeeSummary) :
           \A n \in 1..Len(processedHours) :
               summaryKey(processedHours[n]) = employeeSummary[i].key
                   => processedHours[n].employeeId = employeeSummary[i].val.id

\* The same agreement, for datasets in which no two summaries share a name and
\* no record was folded into a summary of another id.
C30_DetailsMatchApart == NamesAndIdsApart => C30_DetailsMatchSummary

\* Two employees called Dana with the ids '395602' and '218668' were loaded:
\* each summary holds one record, and the details of each count two.
C30_TwoIdsOneName ==
    /\ Len(employeeSummary) = 2
    /\ employeeSummary[1].val.name = employeeSummary[2].val.name
    /\ employeeSummary[1].val.id = <<51,57,53,54,48,50>>
    /\ employeeSummary[2].val.id = <<50,49,56,54,54,56>>
    /\ \A i \in 1..2 :
           /\ Len(RecordsFolded(employeeSummary[i].key)) = 1
           /\ getEmployeeDetails(This, Str(employeeSummary[i].key)).totalRecords = 2

====
